---- MODULE Spec2Model ----
(***************************************************************************)
(* A model of the passforge password-encoding library: the scheme encoders *)
(* (Bcrypt, SCrypt, Argon2, PBKDF2, NoOp), their textual envelopes, and    *)
(* the delegating dispatcher that routes on the "{id}" prefix.             *)
(*                                                                         *)
(* A Go string is modelled as a sequence of one-character strings (its     *)
(* bytes), a []byte as a sequence of numbers 0..255.  The KDF primitives   *)
(* (bcrypt, scrypt, argon2, pbkdf2) are external: each is modelled by its  *)
(* interface (parameter checks, output length) over an abstract digest.    *)
(***************************************************************************)
EXTENDS Integers, Sequences, FiniteSets, TLC

VARIABLES
    d,        \* the dispatcher built by the last successful constructor call, or NoDispatcher
    ctor,     \* the last constructor call: its arguments and what it returned
    stored,   \* a credential saved by an earlier Encode, with the secret it was made from
    last,     \* the last Encode/Verify call: receiver, arguments, result, calls made
    heap,     \* the scheme encoder objects, by address: their configured parameters
    procs     \* the goroutines of the application: the call each is inside, if any

vars == <<d, ctor, stored, last, heap, procs>>

(***************************************************************************)
(* Strings                                                                 *)
(***************************************************************************)

\* The Go nil error.
Nil == "<nil>"

\* s[from..] (1-based), the Go slice s[from-1:].
Drop(s, from) == SubSeq(s, from, Len(s))

\* strings.HasPrefix(s, p)
HasPrefix(s, p) == Len(s) >= Len(p) /\ SubSeq(s, 1, Len(p)) = p

\* strings.Index(s, c) for a one-byte c: the 1-based position of the first c, 0 if none
\* (Go: the 0-based position, -1 if none).
Index(s, c) ==
    IF \E i \in 1..Len(s) : s[i] = c
    THEN CHOOSE i \in 1..Len(s) : s[i] = c /\ \A j \in 1..(i - 1) : s[j] # c
    ELSE 0

\* strings.Split(s, sep) for a one-byte sep: the segments between the separators,
\* always Count(sep) + 1 of them.
RECURSIVE Split(_, _)
Split(s, sep) ==
    LET i == Index(s, sep)
    IN  IF i = 0 THEN <<s>>
        ELSE <<SubSeq(s, 1, i - 1)>> \o Split(Drop(s, i + 1), sep)

Digits == <<"0", "1", "2", "3", "4", "5", "6", "7", "8", "9">>

IsDigit(c) == \E i \in 1..10 : Digits[i] = c

DigitValue(c) == (CHOOSE i \in 1..10 : Digits[i] = c) - 1

\* fmt's %d of a non-negative number.
RECURSIVE FormatNat(_)
FormatNat(n) ==
    IF n < 10 THEN <<Digits[n + 1]>>
    ELSE FormatNat(n \div 10) \o <<Digits[(n % 10) + 1]>>

\* fmt.Sprintf("%d", n)
FormatInt(n) == IF n < 0 THEN <<"-">> \o FormatNat(0 - n) ELSE FormatNat(n)

(***************************************************************************)
(* encoding/base64                                                         *)
(***************************************************************************)

\* base64.StdEncoding's alphabet; its padding character is "=".
StdAlphabet ==
    <<"A", "B", "C", "D", "E", "F", "G", "H", "I", "J", "K", "L", "M", "N", "O", "P",
      "Q", "R", "S", "T", "U", "V", "W", "X", "Y", "Z", "a", "b", "c", "d", "e", "f",
      "g", "h", "i", "j", "k", "l", "m", "n", "o", "p", "q", "r", "s", "t", "u", "v",
      "w", "x", "y", "z", "0", "1", "2", "3", "4", "5", "6", "7", "8", "9", "+", "/">>

\* The alphabet of bcrypt's own base64 (golang.org/x/crypto/bcrypt), used unpadded.
BcryptAlphabet ==
    <<".", "/", "A", "B", "C", "D", "E", "F", "G", "H", "I", "J", "K", "L", "M", "N",
      "O", "P", "Q", "R", "S", "T", "U", "V", "W", "X", "Y", "Z", "a", "b", "c", "d",
      "e", "f", "g", "h", "i", "j", "k", "l", "m", "n", "o", "p", "q", "r", "s", "t",
      "u", "v", "w", "x", "y", "z", "0", "1", "2", "3", "4", "5", "6", "7", "8", "9">>

\* One group of up to three bytes as four characters, "=" padding the short group.
EncodeGroup(alphabet, g) ==
    LET b1 == g[1]
        b2 == IF Len(g) >= 2 THEN g[2] ELSE 0
        b3 == IF Len(g) >= 3 THEN g[3] ELSE 0
        c1 == alphabet[(b1 \div 4) + 1]
        c2 == alphabet[((b1 % 4) * 16 + (b2 \div 16)) + 1]
        c3 == alphabet[((b2 % 16) * 4 + (b3 \div 64)) + 1]
        c4 == alphabet[(b3 % 64) + 1]
    IN  CASE Len(g) = 1 -> <<c1, c2, "=", "=">>
          [] Len(g) = 2 -> <<c1, c2, c3, "=">>
          [] OTHER      -> <<c1, c2, c3, c4>>

\* Encoding.EncodeToString(src)
RECURSIVE EncodeToString(_, _)
EncodeToString(alphabet, src) ==
    IF Len(src) = 0 THEN <<>>
    ELSE IF Len(src) <= 3 THEN EncodeGroup(alphabet, src)
    ELSE EncodeGroup(alphabet, SubSeq(src, 1, 3)) \o EncodeToString(alphabet, Drop(src, 4))

InAlphabet(alphabet, c) == \E i \in 1..Len(alphabet) : alphabet[i] = c

SixBits(alphabet, c) == (CHOOSE i \in 1..Len(alphabet) : alphabet[i] = c) - 1

\* Whether a four-character quantum decodes: data characters, then padding only at
\* the end of the last quantum ("xx==" or "xxx=").
QuantumOK(alphabet, q, isLast) ==
    /\ InAlphabet(alphabet, q[1])
    /\ InAlphabet(alphabet, q[2])
    /\ \/ InAlphabet(alphabet, q[3]) /\ InAlphabet(alphabet, q[4])
       \/ isLast /\ InAlphabet(alphabet, q[3]) /\ q[4] = "="
       \/ isLast /\ q[3] = "=" /\ q[4] = "="

DecodeQuantum(alphabet, q) ==
    LET v1 == SixBits(alphabet, q[1])
        v2 == SixBits(alphabet, q[2])
        v3 == IF q[3] = "=" THEN 0 ELSE SixBits(alphabet, q[3])
        v4 == IF q[4] = "=" THEN 0 ELSE SixBits(alphabet, q[4])
        b1 == v1 * 4 + (v2 \div 16)
        b2 == (v2 % 16) * 16 + (v3 \div 4)
        b3 == (v3 % 4) * 64 + v4
    IN  CASE q[3] = "=" -> <<b1>>
          [] q[4] = "=" -> <<b1, b2>>
          [] OTHER      -> <<b1, b2, b3>>

\* Whether StdEncoding.DecodeString(s) returns no error: padded quanta of four.
\* (The decoder also skips "\r" and "\n", which no string of the model holds.)
RECURSIVE DecodeOK(_, _)
DecodeOK(alphabet, s) ==
    IF Len(s) = 0 THEN TRUE
    ELSE IF Len(s) < 4 THEN FALSE
    ELSE /\ QuantumOK(alphabet, SubSeq(s, 1, 4), Len(s) = 4)
         /\ DecodeOK(alphabet, Drop(s, 5))

\* The bytes StdEncoding.DecodeString(s) returns when it returns no error.
RECURSIVE DecodeString(_, _)
DecodeString(alphabet, s) ==
    IF Len(s) < 4 THEN <<>>
    ELSE DecodeQuantum(alphabet, SubSeq(s, 1, 4)) \o DecodeString(alphabet, Drop(s, 5))

(***************************************************************************)
(* fmt.Sscanf, as far as the parameter blocks use it: literal text, %d     *)
(* into int / uint32 / uint8, %s.  A scan is threaded through a record     *)
(* [rest, ok, vals]: the unread input, whether every step so far matched,  *)
(* and the operands stored so far.  Sscanf does not look at the input that *)
(* is left when the format is used up.                                     *)
(***************************************************************************)

ScanStart(input) == [rest |-> input, ok |-> TRUE, vals |-> <<>>]

ScanFail(st) == [st EXCEPT !.ok = FALSE]

\* ss.SkipSpace: the input without its leading blanks.
RECURSIVE SkipSpace(_)
SkipSpace(s) == IF Len(s) > 0 /\ s[1] = " " THEN SkipSpace(Drop(s, 2)) ELSE s

\* The number of leading decimal digits of s.
RECURSIVE DigitRun(_)
DigitRun(s) == IF Len(s) > 0 /\ IsDigit(s[1]) THEN 1 + DigitRun(Drop(s, 2)) ELSE 0

\* strconv.ParseUint of a run of digits.
RECURSIVE ParseNat(_)
ParseNat(s) ==
    IF Len(s) = 0 THEN 0
    ELSE ParseNat(SubSeq(s, 1, Len(s) - 1)) * 10 + DigitValue(s[Len(s)])

\* A literal piece of the format: the input must continue with exactly this text.
ScanLiteral(st, lit) ==
    IF st.ok /\ HasPrefix(st.rest, lit)
    THEN [st EXCEPT !.rest = Drop(@, Len(lit) + 1)]
    ELSE ScanFail(st)

\* %d into an int (ss.scanInt): blanks, an optional sign, at least one digit.
ScanInt(st) ==
    LET s      == SkipSpace(st.rest)
        signed == Len(s) > 0 /\ s[1] \in {"+", "-"}
        body   == IF signed THEN Drop(s, 2) ELSE s
        n      == DigitRun(body)
        v      == ParseNat(SubSeq(body, 1, n))
    IN  IF st.ok /\ n > 0
        THEN [rest |-> Drop(body, n + 1), ok |-> TRUE,
              vals |-> Append(st.vals, IF signed /\ s[1] = "-" THEN 0 - v ELSE v)]
        ELSE ScanFail(st)

MaxUint8 == 255

\* %d into a uint32 or uint8 (ss.scanUint): blanks, at least one digit, no sign;
\* a value that does not fit bitSize bits is an error.  (A uint32 overflow needs
\* more digits than any parameter block of the model holds.)
ScanUint(st, bitSize) ==
    LET s == SkipSpace(st.rest)
        n == DigitRun(s)
        v == ParseNat(SubSeq(s, 1, n))
    IN  IF st.ok /\ n > 0 /\ ~(bitSize = 8 /\ v > MaxUint8)
        THEN [rest |-> Drop(s, n + 1), ok |-> TRUE, vals |-> Append(st.vals, v)]
        ELSE ScanFail(st)

\* The number of leading non-blank characters of s.
RECURSIVE TokenRun(_)
TokenRun(s) == IF Len(s) > 0 /\ s[1] # " " THEN 1 + TokenRun(Drop(s, 2)) ELSE 0

\* %s (ss.convertString): blanks, then the non-empty run up to the next blank.
ScanString(st) ==
    LET s == SkipSpace(st.rest)
        n == TokenRun(s)
    IN  IF st.ok /\ n > 0
        THEN [rest |-> Drop(s, n + 1), ok |-> TRUE,
              vals |-> Append(st.vals, SubSeq(s, 1, n))]
        ELSE ScanFail(st)

(***************************************************************************)
(* Errors.  An error value is modelled by its message; Nil is no error.    *)
(* A Panic value is not a returned error: the call panicked and returned   *)
(* nothing.                                                                *)
(***************************************************************************)

ErrUnknownEncoding == "unknown encoding"
ErrInvalidFormat == "invalid format"

\* The fmt.Errorf values of the composite encoders' Verify.
ErrEncodedFormat == "invalid encoded password format"
ErrParameterFormat == "invalid parameter format"
ErrUnsupportedHash == "unsupported hash function"
ErrSaltEncoding == "invalid salt encoding"
ErrHashEncoding == "invalid hash encoding"

\* crypto/rand.Read's error.
ErrRandRead == "rand: read failed"

\* golang.org/x/crypto/scrypt
ErrScryptN == "scrypt: N must be > 1 and a power of 2"
ErrScryptTooLarge == "scrypt: parameters are too large"

\* golang.org/x/crypto/argon2
PanicArgon2Rounds == "panic: argon2: number of rounds too small"
PanicArgon2Threads == "panic: argon2: parallelism degree too low"
PanicNilDereference == "panic: runtime error: invalid memory address or nil pointer dereference"

\* golang.org/x/crypto/bcrypt
ErrMismatchedHashAndPassword == "bcrypt: hashedPassword is not the hash of the given password"
ErrHashTooShort == "bcrypt: hashedSecret too short to be a bcrypted password"
InvalidHashPrefixError == "bcrypt: bcrypt hashes must start with '$'"
HashVersionTooNewError == "bcrypt: bcrypt algorithm version newer than current version"
InvalidCostError == "bcrypt: cost outside allowed range (4,31)"
ErrBcryptCostSyntax == "strconv.Atoi: invalid syntax"
ErrBcryptSaltEncoding == "illegal base64 data"

Panics == {PanicArgon2Rounds, PanicArgon2Threads, PanicNilDereference}

(***************************************************************************)
(* The KDF primitives.  The digest itself is abstract: a 16-bit word that  *)
(* is, for a fixed salt and fixed parameters, different for different      *)
(* passwords (the primitive is assumed collision-free), and that changes   *)
(* with the salt and with every parameter.  The derived key is the word    *)
(* stretched to keyLen bytes; its first two bytes hold the word.           *)
(***************************************************************************)

\* The bytes a password of the model is made of.
PasswordBytes == <<"a", "b", "$", "{", "}", "xC3", "xA9">>

ByteCode(c) == CHOOSE i \in 1..Len(PasswordBytes) : PasswordBytes[i] = c

\* A number that is different for different passwords.
RECURSIVE StrCode(_)
StrCode(s) ==
    IF Len(s) = 0 THEN 0
    ELSE StrCode(SubSeq(s, 1, Len(s) - 1)) * (Len(PasswordBytes) + 1) + ByteCode(s[Len(s)])

\* A number mixed from a sequence of numbers (salt bytes, parameters).
RECURSIVE Mix(_)
Mix(xs) ==
    IF Len(xs) = 0 THEN 7
    ELSE (Mix(SubSeq(xs, 1, Len(xs) - 1)) * 31 + xs[Len(xs)] + 1) % 65521

DigestWord(password, xs) == (StrCode(password) + Mix(xs)) % 65536

\* The first n bytes of the key stream of a digest word.
KeyStream(w, n) ==
    [i \in 1..n |-> CASE i = 1 -> w % 256
                      [] i = 2 -> w \div 256
                      [] OTHER -> (w + 7 * i) % 256]

\* A result of a primitive: the key and the error (or panic) it ends with.
KeyResult(key, err) == [key |-> key, err |-> err]

\* The hash.Hash constructors a PBKDF2 encoder can be given, by name.
HashFuncCode(hashFunc) == IF hashFunc = "sha256.New" THEN 1 ELSE 2

\* pbkdf2.Key(password, salt, iter, keyLen, h): the first keyLen bytes of PBKDF2's
\* block stream, so a shorter key is a prefix of a longer one; an iteration count
\* below 1 runs the one mandatory round.  It returns no error.
PBKDF2Key(password, salt, iter, keyLen, hashFunc) ==
    KeyStream(DigestWord(password,
                         <<1>> \o salt \o <<IF iter < 1 THEN 1 ELSE iter, HashFuncCode(hashFunc)>>),
              keyLen)

RECURSIVE IsPowerOfTwo(_)
IsPowerOfTwo(n) == n = 1 \/ (n > 1 /\ n % 2 = 0 /\ IsPowerOfTwo(n \div 2))

ScryptMaxRP == 1073741824

\* scrypt.Key(password, salt, N, r, p, keyLen), for r >= 1 and p >= 1: it rejects
\* an N that is not a power of two above 1 and parameters that are too large.
ScryptKey(password, salt, N, r, p, keyLen) ==
    IF N <= 1 \/ ~IsPowerOfTwo(N) THEN KeyResult(<<>>, ErrScryptN)
    ELSE IF r * p >= ScryptMaxRP THEN KeyResult(<<>>, ErrScryptTooLarge)
    ELSE KeyResult(KeyStream(DigestWord(password, <<2>> \o salt \o <<N, r, p>>), keyLen), Nil)

\* argon2.IDKey(password, salt, time, memory, threads, keyLen): it panics on
\* time < 1 and on threads < 1; the key length is part of what is hashed.
Argon2IDKey(password, salt, time, memory, threads, keyLen) ==
    IF time < 1 THEN KeyResult(<<>>, PanicArgon2Rounds)
    ELSE IF threads < 1 THEN KeyResult(<<>>, PanicArgon2Threads)
    ELSE KeyResult(KeyStream(DigestWord(password,
                                        <<3>> \o salt \o <<time, memory, threads, keyLen>>),
                             keyLen),
                   Nil)

\* subtle.ConstantTimeCompare(x, y) == 1
ConstantTimeCompare(x, y) == Len(x) = Len(y) /\ \A i \in 1..Len(x) : x[i] = y[i]

(***************************************************************************)
(* golang.org/x/crypto/bcrypt: the self-contained envelope                 *)
(*   "$2a$" cost(2 digits) "$" salt(22 characters) hash(31 characters).    *)
(***************************************************************************)

BcryptMinCost == 4
BcryptMaxCost == 31
BcryptDefaultCost == 10
BcryptMinHashSize == 59
BcryptEncodedSaltSize == 22
BcryptSaltSize == 16
BcryptDigestSize == 23

\* bcrypt's base64Encode: its alphabet, the "=" padding cut off.
RECURSIVE TrimPadding(_)
TrimPadding(s) ==
    IF Len(s) > 0 /\ s[Len(s)] = "=" THEN TrimPadding(SubSeq(s, 1, Len(s) - 1)) ELSE s

BcryptBase64Encode(src) == TrimPadding(EncodeToString(BcryptAlphabet, src))

\* bcrypt's base64Decode pads the text to a multiple of four and decodes it.
BcryptPad(s) ==
    CASE Len(s) % 4 = 0 -> s
      [] Len(s) % 4 = 1 -> s \o <<"=", "=", "=">>
      [] Len(s) % 4 = 2 -> s \o <<"=", "=">>
      [] OTHER          -> s \o <<"=">>

\* The hash part of a bcrypt envelope: the digest of (password, cost, encoded salt).
BcryptHashPart(password, cost, encodedSalt) ==
    BcryptBase64Encode(
        KeyStream(DigestWord(password,
                             <<4, cost>> \o DecodeString(BcryptAlphabet, BcryptPad(encodedSalt))),
                  BcryptDigestSize))

\* The cost as "%02d".
FormatCost(cost) == IF cost < 10 THEN <<"0">> \o FormatNat(cost) ELSE FormatNat(cost)

\* bcrypt.GenerateFromPassword(password, cost): a cost below MinCost becomes
\* DefaultCost, a cost above MaxCost is an error; then it draws its 16 salt bytes.
BcryptGenerateFromPassword(password, cost, rnd) ==
    LET c   == IF cost < BcryptMinCost THEN BcryptDefaultCost ELSE cost
        enc == BcryptBase64Encode([i \in 1..BcryptSaltSize |-> rnd.fill])
    IN  IF c > BcryptMaxCost THEN [err |-> InvalidCostError, out |-> <<>>]
        ELSE IF rnd.err # Nil THEN [err |-> rnd.err, out |-> <<>>]
        ELSE [err |-> Nil,
              out |-> <<"$", "2", "a", "$">> \o FormatCost(c) \o <<"$">> \o enc
                          \o BcryptHashPart(password, c, enc)]

\* hashedSecret[1] > majorVersion ('2'), for the bytes the model's envelopes hold.
AboveMajorVersion(c) == c \notin {"0", "1", "2", "$", "+", "/", ".", ",", "-", " "}

\* bcrypt.CompareHashAndPassword(hashedPassword, password): the error it returns.
\* (The cost is read by strconv.Atoi; the costs of the model carry no sign.)
BcryptCompareHashAndPassword(hashed, password) ==
    LET n       == IF hashed[3] # "$" THEN 4 ELSE 3      \* decodeVersion: "$2a$" or "$2$"
        costTxt == SubSeq(hashed, n + 1, n + 2)
        cost    == ParseNat(costTxt)
        rest    == Drop(hashed, n + 4)
        salt    == SubSeq(rest, 1, BcryptEncodedSaltSize)
        hash    == Drop(rest, BcryptEncodedSaltSize + 1)
    IN  IF Len(hashed) < BcryptMinHashSize THEN ErrHashTooShort
        ELSE IF hashed[1] # "$" THEN InvalidHashPrefixError
        ELSE IF AboveMajorVersion(hashed[2]) THEN HashVersionTooNewError
        ELSE IF ~(IsDigit(costTxt[1]) /\ IsDigit(costTxt[2])) THEN ErrBcryptCostSyntax
        ELSE IF cost < BcryptMinCost \/ cost > BcryptMaxCost THEN InvalidCostError
        ELSE IF ~DecodeOK(BcryptAlphabet, BcryptPad(salt)) THEN ErrBcryptSaltEncoding
        ELSE IF ConstantTimeCompare(hash, BcryptHashPart(password, cost, salt)) THEN Nil
        ELSE ErrMismatchedHashAndPassword

(***************************************************************************)
(* The scheme encoders.  An encoder is a record of its configuration; the  *)
(* random source is an argument of Encode: rnd.err is what rand.Read       *)
(* returned and rnd.fill the byte value it filled the salt with.           *)
(***************************************************************************)

Str_iterations == <<"i", "t", "e", "r", "a", "t", "i", "o", "n", "s", "=">>
Str_keyLen == <<",", "k", "e", "y", "L", "e", "n", "=">>
Str_hashFunc == <<",", "h", "a", "s", "h", "F", "u", "n", "c", "=">>
Str_sha256 == <<"s", "h", "a", "2", "5", "6">>
Str_N == <<"N", "=">>
Str_r == <<",", "r", "=">>
Str_p == <<",", "p", "=">>
Str_time == <<"t", "i", "m", "e", "=">>
Str_memory == <<",", "m", "e", "m", "o", "r", "y", "=">>
Str_threads == <<",", "t", "h", "r", "e", "a", "d", "s", "=">>

\* A faulty salt that is the same bytes in every call, whatever the source gives.
RandomSaltFixed(n, rnd) == [i \in 1..n |-> 0]

\* make([]byte, n) filled by rand.Read
RandomSalt(n, rnd) == [i \in 1..n |-> rnd.fill]

EncodeResult(out, err) == [err |-> err, out |-> out]

\* What a Verify returns, with the steps it ran: "scan" (the parameter block),
\* "salt" and "hash" (the base64 decodings), "kdf" (the primitive), "compare".
VerifyResult(matched, err, steps) == [err |-> err, matched |-> matched, steps |-> steps]

\* base64.StdEncoding.EncodeToString
StdEncode(src) == EncodeToString(StdAlphabet, src)

\* A faulty Encode that does not look at the error of rand.Read and goes on with
\* the buffer as the failed read left it.
PBKDF2EncodeUnchecked(e, rawPassword, rnd) ==
    EncodeResult(Str_iterations \o FormatInt(e.Iterations)
                     \o Str_keyLen \o FormatInt(e.KeyLen)
                     \o Str_hashFunc \o e.HashFuncName
                     \o <<"$">> \o StdEncode(RandomSalt(e.SaltLen, rnd)) \o <<"$">>
                     \o StdEncode(PBKDF2Key(rawPassword, RandomSalt(e.SaltLen, rnd),
                                            e.Iterations, e.KeyLen, e.HashFunc)),
                 Nil)

\* PBKDF2PasswordEncoder.Encode
PBKDF2Encode(e, rawPassword, rnd) ==
    IF rnd.err # Nil THEN EncodeResult(<<>>, rnd.err)
    ELSE LET salt == RandomSalt(e.SaltLen, rnd)
             hash == PBKDF2Key(rawPassword, salt, e.Iterations, e.KeyLen, e.HashFunc)
         IN  EncodeResult(Str_iterations \o FormatInt(e.Iterations)
                              \o Str_keyLen \o FormatInt(e.KeyLen)
                              \o Str_hashFunc \o e.HashFuncName
                              \o <<"$">> \o StdEncode(salt) \o <<"$">> \o StdEncode(hash),
                          Nil)

\* fmt.Sscanf(parts[0], "iterations=%d,keyLen=%d,hashFunc=%s", ...)
PBKDF2ScanParams(block) ==
    ScanString(ScanLiteral(ScanInt(ScanLiteral(ScanInt(ScanLiteral(ScanStart(block),
        Str_iterations)), Str_keyLen)), Str_hashFunc))

\* A faulty Verify that takes the hash function from its receiver's configuration
\* instead of rejecting the names it does not know.
PBKDF2VerifyPartsOwnHash(e, rawPassword, parts) ==
    LET scan  == PBKDF2ScanParams(parts[1])
        salt         == DecodeString(StdAlphabet, parts[2])
        storedHash   == DecodeString(StdAlphabet, parts[3])
        computedHash == PBKDF2Key(rawPassword, salt, scan.vals[1], scan.vals[2], e.HashFunc)
    IN  IF Len(parts) # 3 THEN VerifyResult(FALSE, ErrEncodedFormat, <<>>)
        ELSE IF ~scan.ok THEN VerifyResult(FALSE, ErrParameterFormat, <<"scan">>)
        ELSE IF ~DecodeOK(StdAlphabet, parts[2])
             THEN VerifyResult(FALSE, ErrSaltEncoding, <<"scan", "salt">>)
        ELSE IF ~DecodeOK(StdAlphabet, parts[3])
             THEN VerifyResult(FALSE, ErrHashEncoding, <<"scan", "salt", "hash">>)
        ELSE VerifyResult(ConstantTimeCompare(storedHash, computedHash), Nil,
                          <<"scan", "salt", "hash", "kdf", "compare">>)

\* A faulty Verify that recomputes the hash with its receiver's own iteration
\* count and key length instead of the ones the envelope states.
PBKDF2VerifyPartsOwnParams(e, rawPassword, parts) ==
    LET scan  == PBKDF2ScanParams(parts[1])
        salt         == DecodeString(StdAlphabet, parts[2])
        storedHash   == DecodeString(StdAlphabet, parts[3])
        computedHash == PBKDF2Key(rawPassword, salt, e.Iterations, e.KeyLen, "sha256.New")
    IN  IF Len(parts) # 3 THEN VerifyResult(FALSE, ErrEncodedFormat, <<>>)
        ELSE IF ~scan.ok THEN VerifyResult(FALSE, ErrParameterFormat, <<"scan">>)
        ELSE IF scan.vals[3] # Str_sha256
             THEN VerifyResult(FALSE, ErrUnsupportedHash, <<"scan">>)
        ELSE IF ~DecodeOK(StdAlphabet, parts[2])
             THEN VerifyResult(FALSE, ErrSaltEncoding, <<"scan", "salt">>)
        ELSE IF ~DecodeOK(StdAlphabet, parts[3])
             THEN VerifyResult(FALSE, ErrHashEncoding, <<"scan", "salt", "hash">>)
        ELSE VerifyResult(ConstantTimeCompare(storedHash, computedHash), Nil,
                          <<"scan", "salt", "hash", "kdf", "compare">>)

\* PBKDF2PasswordEncoder.Verify, from parts := strings.Split(encodedPassword, "$") on.
PBKDF2VerifyParts(e, rawPassword, parts) ==
    LET scan  == PBKDF2ScanParams(parts[1])
        iterations   == scan.vals[1]
        keyLen       == scan.vals[2]
        hashFuncName == scan.vals[3]
        salt         == DecodeString(StdAlphabet, parts[2])
        storedHash   == DecodeString(StdAlphabet, parts[3])
        computedHash == PBKDF2Key(rawPassword, salt, iterations, keyLen, "sha256.New")
    IN  IF Len(parts) # 3 THEN VerifyResult(FALSE, ErrEncodedFormat, <<>>)
        ELSE IF ~scan.ok THEN VerifyResult(FALSE, ErrParameterFormat, <<"scan">>)
        ELSE IF hashFuncName # Str_sha256
             THEN VerifyResult(FALSE, ErrUnsupportedHash, <<"scan">>)
        ELSE IF ~DecodeOK(StdAlphabet, parts[2])
             THEN VerifyResult(FALSE, ErrSaltEncoding, <<"scan", "salt">>)
        ELSE IF ~DecodeOK(StdAlphabet, parts[3])
             THEN VerifyResult(FALSE, ErrHashEncoding, <<"scan", "salt", "hash">>)
        ELSE VerifyResult(ConstantTimeCompare(storedHash, computedHash), Nil,
                          <<"scan", "salt", "hash", "kdf", "compare">>)

\* PBKDF2PasswordEncoder.Verify
PBKDF2Verify(e, rawPassword, encodedPassword) ==
    PBKDF2VerifyParts(e, rawPassword, Split(encodedPassword, "$"))

\* A faulty Encode that writes the r and p values in each other's place.
ScryptEncodeSwapped(e, rawPassword, rnd) ==
    IF rnd.err # Nil THEN EncodeResult(<<>>, rnd.err)
    ELSE IF ScryptKey(rawPassword, RandomSalt(e.SaltLen, rnd), e.N, e.R, e.P, e.KeyLen).err # Nil
    THEN EncodeResult(<<>>, ScryptKey(rawPassword, RandomSalt(e.SaltLen, rnd),
                                      e.N, e.R, e.P, e.KeyLen).err)
    ELSE EncodeResult(Str_N \o FormatInt(e.N) \o Str_r \o FormatInt(e.P)
                          \o Str_p \o FormatInt(e.R)
                          \o Str_keyLen \o FormatInt(e.KeyLen)
                          \o <<"$">> \o StdEncode(RandomSalt(e.SaltLen, rnd)) \o <<"$">>
                          \o StdEncode(ScryptKey(rawPassword, RandomSalt(e.SaltLen, rnd),
                                                 e.N, e.R, e.P, e.KeyLen).key),
                      Nil)

\* ScryptPasswordEncoder.Encode
ScryptEncode(e, rawPassword, rnd) ==
    IF rnd.err # Nil THEN EncodeResult(<<>>, rnd.err)
    ELSE LET salt == RandomSalt(e.SaltLen, rnd)
             key  == ScryptKey(rawPassword, salt, e.N, e.R, e.P, e.KeyLen)
         IN  IF key.err # Nil THEN EncodeResult(<<>>, key.err)
             ELSE EncodeResult(Str_N \o FormatInt(e.N) \o Str_r \o FormatInt(e.R)
                                   \o Str_p \o FormatInt(e.P)
                                   \o Str_keyLen \o FormatInt(e.KeyLen)
                                   \o <<"$">> \o StdEncode(salt) \o <<"$">> \o StdEncode(key.key),
                               Nil)

\* fmt.Sscanf(parts[0], "N=%d,r=%d,p=%d,keyLen=%d", ...)
ScryptScanParams(block) ==
    ScanInt(ScanLiteral(ScanInt(ScanLiteral(ScanInt(ScanLiteral(ScanInt(ScanLiteral(
        ScanStart(block), Str_N)), Str_r)), Str_p)), Str_keyLen))

\* A faulty Verify that turns a failure of scrypt.Key into a plain mismatch.
ScryptVerifySwallowed(e, rawPassword, encodedPassword) ==
    LET parts == Split(encodedPassword, "$")
        scan  == ScryptScanParams(parts[1])
        salt       == DecodeString(StdAlphabet, parts[2])
        storedHash == DecodeString(StdAlphabet, parts[3])
        computed   == ScryptKey(rawPassword, salt,
                                scan.vals[1], scan.vals[2], scan.vals[3], scan.vals[4])
    IN  IF Len(parts) # 3 THEN VerifyResult(FALSE, ErrEncodedFormat, <<>>)
        ELSE IF ~scan.ok THEN VerifyResult(FALSE, ErrParameterFormat, <<"scan">>)
        ELSE IF ~DecodeOK(StdAlphabet, parts[2])
             THEN VerifyResult(FALSE, ErrSaltEncoding, <<"scan", "salt">>)
        ELSE IF ~DecodeOK(StdAlphabet, parts[3])
             THEN VerifyResult(FALSE, ErrHashEncoding, <<"scan", "salt", "hash">>)
        ELSE IF computed.err # Nil
             THEN VerifyResult(FALSE, Nil, <<"scan", "salt", "hash", "kdf">>)
        ELSE VerifyResult(ConstantTimeCompare(storedHash, computed.key), Nil,
                          <<"scan", "salt", "hash", "kdf", "compare">>)

\* ScryptPasswordEncoder.Verify
ScryptVerify(e, rawPassword, encodedPassword) ==
    LET parts == Split(encodedPassword, "$")
        scan  == ScryptScanParams(parts[1])
        salt       == DecodeString(StdAlphabet, parts[2])
        storedHash == DecodeString(StdAlphabet, parts[3])
        computed   == ScryptKey(rawPassword, salt,
                                scan.vals[1], scan.vals[2], scan.vals[3], scan.vals[4])
    IN  IF Len(parts) # 3 THEN VerifyResult(FALSE, ErrEncodedFormat, <<>>)
        ELSE IF ~scan.ok THEN VerifyResult(FALSE, ErrParameterFormat, <<"scan">>)
        ELSE IF ~DecodeOK(StdAlphabet, parts[2])
             THEN VerifyResult(FALSE, ErrSaltEncoding, <<"scan", "salt">>)
        ELSE IF ~DecodeOK(StdAlphabet, parts[3])
             THEN VerifyResult(FALSE, ErrHashEncoding, <<"scan", "salt", "hash">>)
        ELSE IF computed.err # Nil
             THEN VerifyResult(FALSE, computed.err, <<"scan", "salt", "hash", "kdf">>)
        ELSE VerifyResult(ConstantTimeCompare(storedHash, computed.key), Nil,
                          <<"scan", "salt", "hash", "kdf", "compare">>)

\* Argon2PasswordEncoder.Encode
Argon2Encode(e, rawPassword, rnd) ==
    IF rnd.err # Nil THEN EncodeResult(<<>>, rnd.err)
    ELSE LET salt == RandomSalt(e.SaltLen, rnd)
             key  == Argon2IDKey(rawPassword, salt, e.Time, e.Memory, e.Threads, e.KeyLen)
         IN  IF key.err # Nil THEN EncodeResult(<<>>, key.err)
             ELSE EncodeResult(Str_time \o FormatInt(e.Time) \o Str_memory \o FormatInt(e.Memory)
                                   \o Str_threads \o FormatInt(e.Threads)
                                   \o Str_keyLen \o FormatInt(e.KeyLen)
                                   \o <<"$">> \o StdEncode(salt) \o <<"$">> \o StdEncode(key.key),
                               Nil)

\* fmt.Sscanf(parts[0], "time=%d,memory=%d,threads=%d,keyLen=%d", ...) into
\* uint32, uint32, uint8, uint32
Argon2ScanParams(block) ==
    ScanUint(ScanLiteral(ScanUint(ScanLiteral(ScanUint(ScanLiteral(ScanUint(ScanLiteral(
        ScanStart(block), Str_time), 32), Str_memory), 32), Str_threads), 8), Str_keyLen), 32)

\* Argon2PasswordEncoder.Verify
Argon2Verify(e, rawPassword, encodedPassword) ==
    LET parts == Split(encodedPassword, "$")
        scan  == Argon2ScanParams(parts[1])
        salt       == DecodeString(StdAlphabet, parts[2])
        storedHash == DecodeString(StdAlphabet, parts[3])
        computed   == Argon2IDKey(rawPassword, salt,
                                  scan.vals[1], scan.vals[2], scan.vals[3], scan.vals[4])
    IN  IF Len(parts) # 3 THEN VerifyResult(FALSE, ErrEncodedFormat, <<>>)
        ELSE IF ~scan.ok THEN VerifyResult(FALSE, ErrParameterFormat, <<"scan">>)
        ELSE IF ~DecodeOK(StdAlphabet, parts[2])
             THEN VerifyResult(FALSE, ErrSaltEncoding, <<"scan", "salt">>)
        ELSE IF ~DecodeOK(StdAlphabet, parts[3])
             THEN VerifyResult(FALSE, ErrHashEncoding, <<"scan", "salt", "hash">>)
        ELSE IF computed.err # Nil
             THEN VerifyResult(FALSE, computed.err, <<"scan", "salt", "hash", "kdf">>)
        ELSE VerifyResult(ConstantTimeCompare(storedHash, computed.key), Nil,
                          <<"scan", "salt", "hash", "kdf", "compare">>)

\* BcryptPasswordEncoder.Encode
BcryptEncode(e, rawPassword, rnd) ==
    LET g == BcryptGenerateFromPassword(rawPassword, e.Cost, rnd)
    IN  IF g.err # Nil THEN EncodeResult(<<>>, g.err) ELSE EncodeResult(g.out, Nil)

\* BcryptPasswordEncoder.Verify
\* A faulty Verify that returns the primitive's mismatch signal as an error.
BcryptVerifyMismatchAsError(e, rawPassword, encodedPassword) ==
    LET err == BcryptCompareHashAndPassword(encodedPassword, rawPassword)
    IN  IF err # Nil THEN VerifyResult(FALSE, err, <<"kdf">>)
        ELSE VerifyResult(TRUE, Nil, <<"kdf", "compare">>)

\* BcryptPasswordEncoder.Verify
BcryptVerify(e, rawPassword, encodedPassword) ==
    LET err == BcryptCompareHashAndPassword(encodedPassword, rawPassword)
    IN  IF err # Nil
        THEN IF err = ErrMismatchedHashAndPassword
             THEN VerifyResult(FALSE, Nil, <<"kdf", "compare">>)
             ELSE VerifyResult(FALSE, err, <<"kdf">>)
        ELSE VerifyResult(TRUE, Nil, <<"kdf", "compare">>)

\* NoOpPasswordEncoder.Encode
NoOpEncode(e, rawPassword, rnd) == EncodeResult(rawPassword, Nil)

\* A faulty NoOp Verify that accepts every password the stored text is a prefix of.
NoOpVerifyPrefix(e, rawPassword, encodedPassword) ==
    VerifyResult(HasPrefix(rawPassword, encodedPassword), Nil, <<"compare">>)

\* NoOpPasswordEncoder.Verify
NoOpVerify(e, rawPassword, encodedPassword) ==
    VerifyResult(rawPassword = encodedPassword, Nil, <<"compare">>)

\* PasswordEncoder.Encode, by the encoder's dynamic type.
Encode(e, rawPassword, rnd) ==
    CASE e.scheme = "bcrypt" -> BcryptEncode(e, rawPassword, rnd)
      [] e.scheme = "scrypt" -> ScryptEncode(e, rawPassword, rnd)
      [] e.scheme = "argon2" -> Argon2Encode(e, rawPassword, rnd)
      [] e.scheme = "pbkdf2" -> PBKDF2Encode(e, rawPassword, rnd)
      [] e.scheme = "noop"   -> NoOpEncode(e, rawPassword, rnd)

\* PasswordEncoder.Verify, by the encoder's dynamic type.
Verify(e, rawPassword, encodedPassword) ==
    CASE e.scheme = "bcrypt" -> BcryptVerify(e, rawPassword, encodedPassword)
      [] e.scheme = "scrypt" -> ScryptVerify(e, rawPassword, encodedPassword)
      [] e.scheme = "argon2" -> Argon2Verify(e, rawPassword, encodedPassword)
      [] e.scheme = "pbkdf2" -> PBKDF2Verify(e, rawPassword, encodedPassword)
      [] e.scheme = "noop"   -> NoOpVerify(e, rawPassword, encodedPassword)

(***************************************************************************)
(* Name(): the identifier the dispatcher registers an encoder under.       *)
(***************************************************************************)

BcryptName == <<"b", "c", "r", "y", "p", "t">>
ScryptName == <<"s", "c", "r", "y", "p", "t">>
Argon2Name == <<"a", "r", "g", "o", "n", "2">>
PBKDF2Name == <<"p", "b", "k", "d", "f", "2">>
NoOpName == <<"n", "o", "o", "p">>

\* PasswordEncoder.Name, by the encoder's dynamic type.
Name(e) ==
    CASE e.scheme = "bcrypt" -> BcryptName
      [] e.scheme = "scrypt" -> ScryptName
      [] e.scheme = "argon2" -> Argon2Name
      [] e.scheme = "pbkdf2" -> PBKDF2Name
      [] e.scheme = "noop"   -> NoOpName

(***************************************************************************)
(* The delegating dispatcher.                                              *)
(***************************************************************************)

\* The nil *DelegatingPasswordEncoder.
\* The file holds two revisions of the dispatcher: the one whose constructor
\* takes the encoders themselves and registers each under its Name() ("variadic"),
\* and the one whose constructor takes the registry as a map ("map"), which the
\* tests and the README call.  A dispatcher value records the revision it runs.
NoDispatcher == [rev |-> "none", DefaultEncoderID |-> <<>>, Encoders |-> <<>>, nil |-> TRUE]

\* The nil PasswordEncoder.
NilEncoder == [scheme |-> "nil", ptr |-> 0]

ErrEmptyDefaultID == "default encoder ID cannot be empty"
ErrNoEncoders == "at least one encoder must be provided"
ErrDefaultNotFound == "default encoder not found in provided encoders"

\* buildEncoderMap: each encoder under its Name(); a later encoder of the same
\* name replaces an earlier one.
buildEncoderMap(encoders) ==
    [id \in {Name(encoders[i]) : i \in 1..Len(encoders)} |->
        encoders[CHOOSE i \in 1..Len(encoders) :
                    /\ Name(encoders[i]) = id
                    /\ \A j \in (i + 1)..Len(encoders) : Name(encoders[j]) # id]]

\* NewDelegatingPasswordEncoder(defaultEncoderID, encoders...): the dispatcher
\* and the error it returns.
NewDelegatingPasswordEncoder(defaultEncoderID, encoders) ==
    LET encoderMap == buildEncoderMap(encoders)
    IN  IF defaultEncoderID = <<>> THEN [d |-> NoDispatcher, err |-> ErrEmptyDefaultID]
        ELSE IF Len(encoders) = 0 THEN [d |-> NoDispatcher, err |-> ErrNoEncoders]
        ELSE IF defaultEncoderID \notin DOMAIN encoderMap
             THEN [d |-> NoDispatcher, err |-> ErrDefaultNotFound]
        ELSE [d |-> [rev              |-> "variadic",
                     DefaultEncoderID |-> defaultEncoderID,
                     Encoders         |-> encoderMap,
                     nil              |-> FALSE,
                     DefaultEncoder   |-> encoderMap[defaultEncoderID]],
              err |-> Nil]

\* NewDelegatingPasswordEncoder(defaultEncoderID, encoders map): the map revision
\* checks nothing and has no error to return; its dispatcher keeps no default
\* identifier, and its default encoder is nil when the map has no such key.
NewDelegatingPasswordEncoderMap(defaultEncoderID, encoders) ==
    [d |-> [rev              |-> "map",
            DefaultEncoderID |-> <<>>,
            Encoders         |-> encoders,
            nil              |-> FALSE,
            DefaultEncoder   |-> IF defaultEncoderID \in DOMAIN encoders
                                 THEN encoders[defaultEncoderID] ELSE NilEncoder],
     err |-> Nil]

\* DelegatingPasswordEncoder.getDefaultID
getDefaultID(dp) == dp.DefaultEncoderID

\* getDefaultID of the map revision: the first key, in the order the range over
\* the map happens to take, whose encoder is the default encoder; "" when none is.
RECURSIVE getDefaultIDScan(_, _)
getDefaultIDScan(dp, order) ==
    IF Len(order) = 0 THEN <<>>
    ELSE IF dp.Encoders[order[1]] = dp.DefaultEncoder THEN order[1]
    ELSE getDefaultIDScan(dp, Drop(order, 2))

\* A faulty extractIDAndHash that looks for the "}" only.
extractIDAndHashNoOpen(encodedPassword) ==
    LET idx == Index(encodedPassword, "}")
    IN  IF idx = 0
        THEN [err |-> ErrInvalidFormat, hash |-> <<>>, id |-> <<>>]
        ELSE [err  |-> Nil,
              hash |-> Drop(encodedPassword, idx + 1),
              id   |-> SubSeq(encodedPassword, 2, idx - 1)]

\* A faulty extractIDAndHash that splits at the last "}" of the envelope.
extractIDAndHashLastClose(encodedPassword) ==
    LET closes == {k \in 1..Len(encodedPassword) : encodedPassword[k] = "}"}
        idx == IF closes = {} THEN 0 ELSE CHOOSE k \in closes : \A j \in closes : j <= k
    IN  IF Len(encodedPassword) = 0 \/ encodedPassword[1] # "{"
        THEN [err |-> ErrInvalidFormat, hash |-> <<>>, id |-> <<>>]
        ELSE IF idx = 0
        THEN [err |-> ErrInvalidFormat, hash |-> <<>>, id |-> <<>>]
        ELSE [err  |-> Nil,
              hash |-> Drop(encodedPassword, idx + 1),
              id   |-> SubSeq(encodedPassword, 2, idx - 1)]

\* extractIDAndHash(encodedPassword): "{id}hash" split at the first "}".
extractIDAndHash(encodedPassword) ==
    LET idx == Index(encodedPassword, "}")
    IN  IF Len(encodedPassword) = 0 \/ encodedPassword[1] # "{"
        THEN [err |-> ErrInvalidFormat, hash |-> <<>>, id |-> <<>>]
        ELSE IF idx = 0
        THEN [err |-> ErrInvalidFormat, hash |-> <<>>, id |-> <<>>]
        ELSE [err  |-> Nil,
              hash |-> Drop(encodedPassword, idx + 1),
              id   |-> SubSeq(encodedPassword, 2, idx - 1)]

\* A call the dispatcher made on a scheme encoder.
EncoderCall(e, op, rawPassword, encodedPassword) ==
    [enc |-> e, op |-> op, raw |-> rawPassword, encoded |-> encodedPassword]

\* A faulty Encode that returns the default encoder's output without the prefix.
DelegatingEncodeReturnBare(dp, r, calls) ==
    IF r.err # Nil THEN [err |-> r.err, out |-> <<>>, calls |-> calls]
    ELSE [err |-> Nil, out |-> r.out, calls |-> calls]

\* A faulty Encode that returns the prefix together with the encoder's error.
DelegatingEncodeReturnPrefixed(dp, r, calls) ==
    [err |-> r.err,
     out |-> <<"{">> \o getDefaultID(dp) \o <<"}">> \o r.out, calls |-> calls]

\* DelegatingPasswordEncoder.Encode, from the default encoder's result r on.
DelegatingEncodeReturn(dp, r, calls) ==
    IF r.err # Nil THEN [err |-> r.err, out |-> <<>>, calls |-> calls]
    ELSE [err |-> Nil,
          out |-> <<"{">> \o getDefaultID(dp) \o <<"}">> \o r.out, calls |-> calls]

\* DelegatingPasswordEncoder.Encode: the result, with the encoder calls made.
DelegatingEncode(dp, rawPassword, rnd) ==
    DelegatingEncodeReturn(dp, Encode(dp.DefaultEncoder, rawPassword, rnd),
                           <<EncoderCall(dp.DefaultEncoder, "Encode", rawPassword, <<>>)>>)

\* DelegatingPasswordEncoder.Encode of the map revision, from the default encoder's
\* result r on.
DelegatingEncodeScanReturn(dp, r, calls, order) ==
    IF r.err # Nil THEN [err |-> r.err, out |-> <<>>, calls |-> calls]
    ELSE [err |-> Nil,
          out |-> <<"{">> \o getDefaultIDScan(dp, order) \o <<"}">> \o r.out, calls |-> calls]

\* DelegatingPasswordEncoder.Encode of the map revision; order is the order in which
\* the range over the registry yields its keys.  A nil default encoder makes the
\* call panic.
DelegatingEncodeScan(dp, rawPassword, rnd, order) ==
    IF dp.DefaultEncoder = NilEncoder
    THEN [err |-> PanicNilDereference, out |-> <<>>, calls |-> <<>>]
    ELSE DelegatingEncodeScanReturn(
             dp, Encode(dp.DefaultEncoder, rawPassword, rnd),
             <<EncoderCall(dp.DefaultEncoder, "Encode", rawPassword, <<>>)>>, order)

\* DelegatingPasswordEncoder.Verify, its last line: the result r of the encoder
\* found under id goes back as it is.
DelegatingVerifyReturn(r, id, call) ==
    [err |-> r.err, matched |-> r.matched, steps |-> r.steps,
     calls |-> <<call>>, lookups |-> <<id>>]

\* A faulty Verify that hands every routed envelope to the default encoder.
DelegatingVerifyByDefault(dp, rawPassword, x) ==
    IF x.err # Nil
    THEN [err |-> x.err, matched |-> FALSE, steps |-> <<>>,
          calls |-> <<>>, lookups |-> <<>>]
    ELSE IF x.id \notin DOMAIN dp.Encoders
    THEN [err |-> ErrUnknownEncoding, matched |-> FALSE, steps |-> <<>>,
          calls |-> <<>>, lookups |-> <<x.id>>]
    ELSE DelegatingVerifyReturn(Verify(dp.DefaultEncoder, rawPassword, x.hash), x.id,
                                EncoderCall(dp.DefaultEncoder, "Verify", rawPassword, x.hash))

\* A faulty Verify that falls back to the default encoder for an unknown identifier.
DelegatingVerifyFallback(dp, rawPassword, x) ==
    IF x.err # Nil
    THEN [err |-> x.err, matched |-> FALSE, steps |-> <<>>,
          calls |-> <<>>, lookups |-> <<>>]
    ELSE IF x.id \notin DOMAIN dp.Encoders
    THEN DelegatingVerifyReturn(Verify(dp.DefaultEncoder, rawPassword, x.hash), x.id,
                                EncoderCall(dp.DefaultEncoder, "Verify", rawPassword, x.hash))
    ELSE DelegatingVerifyReturn(Verify(dp.Encoders[x.id], rawPassword, x.hash), x.id,
                                EncoderCall(dp.Encoders[x.id], "Verify", rawPassword, x.hash))

\* DelegatingPasswordEncoder.Verify, from the extracted x on.
DelegatingVerifyExtracted(dp, rawPassword, x) ==
    IF x.err # Nil
    THEN [err |-> x.err, matched |-> FALSE, steps |-> <<>>,
          calls |-> <<>>, lookups |-> <<>>]
    ELSE IF x.id \notin DOMAIN dp.Encoders
    THEN [err |-> ErrUnknownEncoding, matched |-> FALSE, steps |-> <<>>,
          calls |-> <<>>, lookups |-> <<x.id>>]
    ELSE DelegatingVerifyReturn(Verify(dp.Encoders[x.id], rawPassword, x.hash), x.id,
                                EncoderCall(dp.Encoders[x.id], "Verify", rawPassword, x.hash))

\* DelegatingPasswordEncoder.Verify: the result, with the registry lookups and
\* the encoder calls made.
DelegatingVerify(dp, rawPassword, encodedPassword) ==
    DelegatingVerifyExtracted(dp, rawPassword, extractIDAndHash(encodedPassword))

(***************************************************************************)
(* Construction of the scheme encoders: the documented defaults, changed   *)
(* by the functional options given, in the order given.  An option is a    *)
(* record [field, val]; WithPBKDF2HashFunc sets two fields.                *)
(***************************************************************************)

PBKDF2DefaultIterations == 10000
PBKDF2DefaultKeyLen == 32
PBKDF2DefaultSaltLen == 16
ScryptDefaultN == 16384
ScryptDefaultR == 8
ScryptDefaultP == 1
ScryptDefaultKeyLen == 32
ScryptDefaultSaltLen == 16
Argon2DefaultTime == 1
Argon2DefaultMemory == 65536
Argon2DefaultThreads == 4
Argon2DefaultKeyLen == 32
Argon2DefaultSaltLen == 16

Option(field, val) == [field |-> field, val |-> val]

WithPBKDF2Iterations(iterations) == Option("Iterations", iterations)
WithPBKDF2KeyLen(keyLen) == Option("KeyLen", keyLen)
WithPBKDF2SaltLen(saltLen) == Option("SaltLen", saltLen)
WithPBKDF2HashFunc(hashFunc, hashFuncName) ==
    Option("HashFunc", [HashFuncName |-> hashFuncName, HashFunc |-> hashFunc])
WithScryptN(n) == Option("N", n)
WithScryptR(r) == Option("R", r)
WithScryptP(p) == Option("P", p)
WithScryptKeyLen(keyLen) == Option("KeyLen", keyLen)
WithScryptSaltLen(saltLen) == Option("SaltLen", saltLen)
WithArgon2Time(time) == Option("Time", time)
WithArgon2Memory(memory) == Option("Memory", memory)
WithArgon2Threads(threads) == Option("Threads", threads)
WithArgon2KeyLen(keyLen) == Option("KeyLen", keyLen)
WithArgon2SaltLen(saltLen) == Option("SaltLen", saltLen)
WithCost(cost) == Option("Cost", cost)

\* opt(encoder) for each option in turn.
RECURSIVE ApplyOptions(_, _)
ApplyOptions(e, opts) ==
    IF Len(opts) = 0 THEN e
    ELSE LET o == opts[1]
             e1 == IF o.field = "HashFunc"
                   THEN [e EXCEPT !.HashFunc = o.val.HashFunc,
                                  !.HashFuncName = o.val.HashFuncName]
                   ELSE [e EXCEPT ![o.field] = o.val]
         IN  ApplyOptions(e1, Drop(opts, 2))

\* Each constructor takes the address the new encoder gets: two encoders of one
\* configuration are still two encoders.
NewPBKDF2PasswordEncoder(ptr, opts) ==
    ApplyOptions([Iterations |-> PBKDF2DefaultIterations, KeyLen |-> PBKDF2DefaultKeyLen,
                  HashFuncName |-> Str_sha256, SaltLen |-> PBKDF2DefaultSaltLen,
                  HashFunc |-> "sha256.New",
                  scheme |-> "pbkdf2", ptr |-> ptr], opts)

NewScryptPasswordEncoder(ptr, opts) ==
    ApplyOptions([N |-> ScryptDefaultN, KeyLen |-> ScryptDefaultKeyLen,
                  SaltLen |-> ScryptDefaultSaltLen, R |-> ScryptDefaultR, P |-> ScryptDefaultP,
                  scheme |-> "scrypt", ptr |-> ptr], opts)

NewArgon2PasswordEncoder(ptr, opts) ==
    ApplyOptions([KeyLen |-> Argon2DefaultKeyLen, SaltLen |-> Argon2DefaultSaltLen,
                  Time |-> Argon2DefaultTime, Memory |-> Argon2DefaultMemory,
                  Threads |-> Argon2DefaultThreads,
                  scheme |-> "argon2", ptr |-> ptr], opts)

NewBcryptPasswordEncoder(ptr, opts) ==
    ApplyOptions([Cost |-> BcryptDefaultCost, scheme |-> "bcrypt", ptr |-> ptr], opts)

NewNoOpPasswordEncoder(ptr) == [scheme |-> "noop", ptr |-> ptr]

\* A faulty positional constructor that keeps a zero as it is given.
NewPBKDF2PasswordEncoderPositionalAsGiven(ptr, iterations, keyLen, saltLen, hashFunc) ==
    [Iterations |-> iterations, KeyLen |-> keyLen,
     HashFuncName |-> Str_sha256, SaltLen |-> saltLen,
     HashFunc |-> IF hashFunc = "nil" THEN "sha256.New" ELSE hashFunc,
     scheme |-> "pbkdf2", ptr |-> ptr]

\* NewPBKDF2PasswordEncoder(iterations, keyLen, saltLen, hashFunc) of pbkdf2.go: a
\* zero, or a nil hashFunc, stands for the default; the name written in the
\* envelope is "sha256" whatever hashFunc is.
NewPBKDF2PasswordEncoderPositional(ptr, iterations, keyLen, saltLen, hashFunc) ==
    [Iterations |-> IF iterations = 0 THEN PBKDF2DefaultIterations ELSE iterations,
     KeyLen |-> IF keyLen = 0 THEN PBKDF2DefaultKeyLen ELSE keyLen,
     HashFuncName |-> Str_sha256,
     SaltLen |-> IF saltLen = 0 THEN PBKDF2DefaultSaltLen ELSE saltLen,
     HashFunc |-> IF hashFunc = "nil" THEN "sha256.New" ELSE hashFunc,
     scheme |-> "pbkdf2", ptr |-> ptr]

\* NewScryptPasswordEncoder(n, r, p, keyLen, saltLen) of the positional revision.
NewScryptPasswordEncoderPositional(ptr, n, r, p, keyLen, saltLen) ==
    [N |-> IF n = 0 THEN ScryptDefaultN ELSE n,
     KeyLen |-> IF keyLen = 0 THEN ScryptDefaultKeyLen ELSE keyLen,
     SaltLen |-> IF saltLen = 0 THEN ScryptDefaultSaltLen ELSE saltLen,
     R |-> IF r = 0 THEN ScryptDefaultR ELSE r,
     P |-> IF p = 0 THEN ScryptDefaultP ELSE p,
     scheme |-> "scrypt", ptr |-> ptr]

\* NewArgon2PasswordEncoder(time, memory, threads, keyLen, saltLen) of the
\* positional revision.
NewArgon2PasswordEncoderPositional(ptr, time, memory, threads, keyLen, saltLen) ==
    [KeyLen |-> IF keyLen = 0 THEN Argon2DefaultKeyLen ELSE keyLen,
     SaltLen |-> IF saltLen = 0 THEN Argon2DefaultSaltLen ELSE saltLen,
     Time |-> IF time = 0 THEN Argon2DefaultTime ELSE time,
     Memory |-> IF memory = 0 THEN Argon2DefaultMemory ELSE memory,
     Threads |-> IF threads = 0 THEN Argon2DefaultThreads ELSE threads,
     scheme |-> "argon2", ptr |-> ptr]

\* NewBcryptPasswordEncoder(cost) of the positional revision.
NewBcryptPasswordEncoderPositional(ptr, cost) ==
    [Cost |-> IF cost = 0 THEN BcryptDefaultCost ELSE cost, scheme |-> "bcrypt", ptr |-> ptr]

(***************************************************************************)
(* The inputs of the model.                                                *)
(***************************************************************************)

Str_sha512 == <<"s", "h", "a", "5", "1", "2">>

\* The encoders the calls are made on: the defaults, the configurations of the
\* repository's tests, and configurations the options allow (another hash
\* function, a hash function name with a "$", a zero key length, a scrypt N and a
\* bcrypt cost the primitive rejects).
BcryptEncoder == NewBcryptPasswordEncoder(1, <<WithCost(10)>>)
BcryptBadCost == NewBcryptPasswordEncoder(2, <<WithCost(32)>>)
ScryptEncoder == NewScryptPasswordEncoder(3, <<>>)
ScryptBadN == NewScryptPasswordEncoder(4, <<WithScryptN(3)>>)
Argon2Encoder == NewArgon2PasswordEncoder(5, <<>>)
PBKDF2Encoder == NewPBKDF2PasswordEncoder(6, <<>>)
PBKDF2Test ==
    NewPBKDF2PasswordEncoder(7, <<WithPBKDF2Iterations(1000), WithPBKDF2KeyLen(32),
                                  WithPBKDF2SaltLen(16),
                                  WithPBKDF2HashFunc("sha256.New", Str_sha256)>>)
PBKDF2Sha512 ==
    NewPBKDF2PasswordEncoder(8, <<WithPBKDF2HashFunc("sha512.New", Str_sha512)>>)
PBKDF2ZeroKey == NewPBKDF2PasswordEncoder(9, <<WithPBKDF2KeyLen(0)>>)
NoOpEncoder == NewNoOpPasswordEncoder(10)

\* A hash function name, free text to WithPBKDF2HashFunc, that holds a "$".
Str_sha_dollar_256 == <<"s", "h", "a", "$", "2", "5", "6">>
PBKDF2DollarName ==
    NewPBKDF2PasswordEncoder(11, <<WithPBKDF2HashFunc("sha256.New", Str_sha_dollar_256)>>)

EncoderInstances ==
    {BcryptEncoder, BcryptBadCost, ScryptEncoder, ScryptBadN, Argon2Encoder,
     PBKDF2Encoder, PBKDF2Test, PBKDF2Sha512, PBKDF2ZeroKey, PBKDF2DollarName, NoOpEncoder}

Composite(e) == e.scheme \in {"scrypt", "argon2", "pbkdf2"}

\* The longest run of "a" among the secrets.
MaxSecretLen == 1

\* The secrets: "", "a", ..., and secrets holding "$", "{", "}" and a non-ASCII
\* character (U+00E9 as its two UTF-8 bytes).
Secrets ==
    {[i \in 1..n |-> "a"] : n \in 0..MaxSecretLen}
        \cup {<<"a", "$", "$", "b">>, <<"{", "a", "}", "b">>, <<"xC3", "xA9">>}

\* What rand.Read does: it fills the salt (with one of two byte values) or fails.
RandomSources ==
    {[err |-> Nil, fill |-> 0], [err |-> Nil, fill |-> 171], [err |-> ErrRandRead, fill |-> 0]}

\* Envelopes written by hand, as the repository's tests do.
Str_invalid_format == <<"i", "n", "v", "a", "l", "i", "d", "-", "f", "o", "r", "m", "a", "t">>
Str_invalid_params == <<"i", "n", "v", "a", "l", "i", "d", ",", "p", "a", "r", "a", "m", "s", "$", "s", "a", "l", "t", "$", "h", "a", "s", "h">>

\* A hand-written PBKDF2 envelope with keyLen=0, an empty salt and an empty hash.
Str_zero_key ==
    <<"i", "t", "e", "r", "a", "t", "i", "o", "n", "s", "=", "1", ",",
      "k", "e", "y", "L", "e", "n", "=", "0", ",",
      "h", "a", "s", "h", "F", "u", "n", "c", "=", "s", "h", "a", "2", "5", "6", "$", "$">>

HandWritten == {Str_invalid_format, Str_invalid_params, Str_zero_key}

\* strings.Join(parts, sep)
RECURSIVE Join(_, _)
Join(parts, sep) ==
    IF Len(parts) = 0 THEN <<>>
    ELSE IF Len(parts) = 1 THEN parts[1]
    ELSE parts[1] \o <<sep>> \o Join(Drop(parts, 2), sep)

\* s with the character at position i replaced by c (s itself when it is shorter).
ReplaceAt(s, i, c) == IF i \in 1..Len(s) THEN [s EXCEPT ![i] = c] ELSE s

\* The ways a stored envelope is damaged before it is verified.
TamperKinds ==
    {"TwoSegments", "NoDollar", "FourSegments", "OtherHash",
     "Truncate", "BadSalt", "ExtraText", "BadN", "BadPrefix", "NewVersion", "BadCost"}

Tamper(kind, env) ==
    LET parts == Split(env, "$")
        n     == Len(parts)
        lastStart == Len(env) - Len(parts[n]) + 1
    IN  CASE kind = "TwoSegments"  -> Join(SubSeq(parts, 1, IF n < 2 THEN n ELSE 2), "$")
          [] kind = "NoDollar"     -> parts[1]
          [] kind = "FourSegments" -> env \o <<"$", "A", "A", "=", "=">>
          [] kind = "OtherHash"    ->
                ReplaceAt(env, lastStart, IF Len(parts[n]) > 0 /\ parts[n][1] = "A" THEN "B" ELSE "A")
          [] kind = "Truncate"     -> SubSeq(env, 1, IF Len(env) < 2 THEN 0 ELSE Len(env) - 2)
          [] kind = "BadSalt"      ->
                IF n < 2 THEN env ELSE ReplaceAt(env, Len(parts[1]) + 2, "!")
          [] kind = "ExtraText"    ->
                IF n < 2 THEN env
                ELSE parts[1] \o <<" ", "x", "$">> \o Join(Drop(parts, 2), "$")
          [] kind = "BadN"         -> ReplaceAt(env, 7, "5")
          [] kind = "BadPrefix"    -> ReplaceAt(env, 1, "x")
          [] kind = "NewVersion"   -> ReplaceAt(env, 2, "3")
          [] kind = "BadCost"      -> ReplaceAt(ReplaceAt(env, 5, "9"), 6, "9")

(***************************************************************************)
(* The state machine.  The library keeps no state of its own between       *)
(* calls: the state is the dispatcher in use, the credential row the       *)
(* caller keeps for one account, and a record of the last call.            *)
(***************************************************************************)

NoCall == [op |-> "none"]
NoCredential == [envelope |-> <<>>, present |-> FALSE]
NoConstruction == [called |-> FALSE]

\* The encoder objects as their constructors left them.
HeapAtConstruction ==
    [p \in {e.ptr : e \in EncoderInstances} |-> CHOOSE e \in EncoderInstances : e.ptr = p]

\* A faulty PBKDF2 Verify that scans the envelope's parameters into its receiver.
ReceiverKeepsParsed(e, op, rawPassword, encodedPassword) ==
    IF /\ op = "Verify"
       /\ e.scheme = "pbkdf2"
       /\ Len(Split(encodedPassword, "$")) = 3
       /\ PBKDF2ScanParams(Split(encodedPassword, "$")[1]).ok
    THEN [e EXCEPT !.Iterations = PBKDF2ScanParams(Split(encodedPassword, "$")[1]).vals[1],
                   !.KeyLen = PBKDF2ScanParams(Split(encodedPassword, "$")[1]).vals[2]]
    ELSE e

\* The receiver e after a call of its method op (Encode, Verify or Name): no method
\* of a scheme encoder assigns to a field of its receiver.
Receiver(e, op, rawPassword, encodedPassword) == e

\* The dispatcher after a call of its Encode or Verify: neither assigns to a field
\* of the dispatcher or to an entry of its registry.
DelegatingReceiver(dp, op, rawPassword, encodedPassword) == dp

\* The encoder objects after the calls made on them, in order.
RECURSIVE HeapAfter(_, _)
HeapAfter(h, calls) ==
    IF Len(calls) = 0 THEN h
    ELSE IF calls[1].enc.ptr \notin DOMAIN h THEN HeapAfter(h, Drop(calls, 2))
    ELSE HeapAfter([h EXCEPT ![calls[1].enc.ptr] =
                                Receiver(h[calls[1].enc.ptr], calls[1].op,
                                         calls[1].raw, calls[1].encoded)],
                   Drop(calls, 2))

\* The Name() calls the constructor makes, through buildEncoderMap, once the
\* default identifier is seen not to be empty.
NameCalls(defaultEncoderID, encoders) ==
    IF defaultEncoderID = <<>> THEN <<>>
    ELSE [i \in 1..Len(encoders) |-> EncoderCall(encoders[i], "Name", <<>>, <<>>)]

\* The number of goroutines that call into the library at once.
MaxProcs == 2

Procs == 1..MaxProcs

\* A goroutine inside a call: the statement it is at (pc), the call and its
\* arguments, the encoder it is in (ptr), the envelope that encoder was handed,
\* its salt buffer, its derived key, and what the call returns (res, once pc is
\* "done").
Frame(pc, call, ptr, encoded, salt, key, res) ==
    [key |-> key, salt |-> salt, ptr |-> ptr, encoded |-> encoded,
     call |-> call, pc |-> pc, res |-> res]

Idle == Frame("idle", NoCall, 0, <<>>, <<>>, <<>>, <<>>)

NoGoroutines == [g \in Procs |-> Idle]

Init ==
    /\ d = NoDispatcher
    /\ ctor = NoConstruction
    /\ stored = NoCredential
    /\ last = NoCall
    /\ heap = HeapAtConstruction
    /\ procs = NoGoroutines

\* The caller deletes the account's credential row.
Forget ==
    /\ stored.present
    /\ stored' = NoCredential
    /\ last' = NoCall
    /\ UNCHANGED <<d, ctor, heap>>
    /\ UNCHANGED procs

\* The caller fills the row with an envelope that no encoder of this run produced.
Import(encoded) ==
    /\ ~stored.present
    /\ stored' = [envelope |-> encoded, present |-> TRUE, imported |-> TRUE]
    /\ last' = NoCall
    /\ UNCHANGED <<d, ctor, heap>>
    /\ UNCHANGED procs

(***************************************************************************)
(* Calls on a scheme encoder.                                              *)
(***************************************************************************)

\* encoded, err := e.Encode(raw); the caller stores what a successful call returned.
Encoded(e, raw, rnd, r) ==
    /\ last' = [err |-> r.err, rnd |-> rnd, out |-> r.out, op |-> "Encode",
                raw |-> raw, recv |-> e]
    /\ stored' = IF r.err = Nil
                 THEN [rnd |-> rnd, envelope |-> r.out, present |-> TRUE,
                       imported |-> FALSE, secret |-> raw, by |-> e]
                 ELSE stored
    /\ heap' = HeapAfter(heap, <<EncoderCall(e, "Encode", raw, <<>>)>>)
    /\ UNCHANGED procs
    /\ UNCHANGED <<d, ctor>>

EncodeCall(e, raw, rnd) ==
    /\ ~stored.present
    /\ Encoded(e, raw, rnd, Encode(e, raw, rnd))

Verified(e, raw, encoded, kind, r) ==
    [err |-> r.err, matched |-> r.matched, steps |-> r.steps, op |-> "Verify", raw |-> raw,
     encoded |-> encoded, kind |-> kind, recv |-> e]

VerifyRecord(e, raw, encoded, kind) ==
    Verified(e, raw, encoded, kind, Verify(e, raw, encoded))

\* matched, err := e.Verify(raw, stored envelope); an envelope made in this run goes
\* to an encoder of the scheme that made it.
VerifyStored(e, raw) ==
    /\ stored.present
    /\ IF stored.imported THEN TRUE ELSE e.scheme = stored.by.scheme
    /\ last' = VerifyRecord(e, raw, stored.envelope, "none")
    /\ heap' = HeapAfter(heap, <<EncoderCall(e, "Verify", raw, stored.envelope)>>)
    /\ UNCHANGED procs
    /\ UNCHANGED <<d, ctor, stored>>

\* A password other than the one given.
OtherSecret(raw) == IF raw = <<"a">> THEN <<>> ELSE <<"a">>

\* The same by the encoder that made the envelope, after the envelope was damaged.
VerifyTampered(wrong, kind) ==
    /\ stored.present
    /\ ~stored.imported
    /\ last' = VerifyRecord(stored.by,
                            IF wrong THEN OtherSecret(stored.secret) ELSE stored.secret,
                            Tamper(kind, stored.envelope), kind)
    /\ heap' = HeapAfter(heap, <<EncoderCall(stored.by, "Verify", last'.raw, last'.encoded)>>)
    /\ UNCHANGED procs
    /\ UNCHANGED <<d, ctor, stored>>

NextEncoders ==
    \/ \E p \in DOMAIN heap, raw \in Secrets, rnd \in RandomSources :
          EncodeCall(heap[p], raw, rnd)
    \/ \E encoded \in HandWritten : Import(encoded)
    \/ Forget
    \/ \E p \in DOMAIN heap, raw \in Secrets : VerifyStored(heap[p], raw)
    \/ \E kind \in TamperKinds, wrong \in BOOLEAN :
          VerifyTampered(wrong, kind)

SpecEncoders == Init /\ [][NextEncoders]_vars

(***************************************************************************)
(* Calls on the dispatcher.                                                *)
(***************************************************************************)

\* The constructor calls of the deployments the model moves between: the
\* README's set-up, the same with another default, a default added later, a
\* set-up that dropped encoders, one that names two encoders alike, and one
\* that moved on to scrypt.
Deployments ==
    {[encoders |-> <<BcryptEncoder, NoOpEncoder>>, defaultEncoderID |-> BcryptName],
     [encoders |-> <<BcryptEncoder, NoOpEncoder>>,   defaultEncoderID |-> NoOpName],
     [encoders |-> <<BcryptEncoder, NoOpEncoder, PBKDF2Test>>, defaultEncoderID |-> PBKDF2Name],
     [encoders |-> <<PBKDF2Encoder, Argon2Encoder, ScryptEncoder>>, defaultEncoderID |-> Argon2Name],
     [encoders |-> <<PBKDF2Test, PBKDF2Sha512, ScryptEncoder>>, defaultEncoderID |-> PBKDF2Name],
     [encoders |-> <<ScryptEncoder, NoOpEncoder>>, defaultEncoderID |-> ScryptName]}

\* The constructor calls of the map revision: the README's and the tests' map, a
\* map that holds the bcrypt encoder under two keys, and a map without the
\* default's key.
Str_legacy == <<"l", "e", "g", "a", "c", "y">>
MapDeployments ==
    {[encoders |-> (BcryptName :> BcryptEncoder) @@ (NoOpName :> NoOpEncoder),
      defaultEncoderID |-> BcryptName],
     [encoders |-> (BcryptName :> BcryptEncoder) @@ (Str_legacy :> BcryptEncoder),
      defaultEncoderID |-> BcryptName],
     [encoders |-> (BcryptName :> BcryptEncoder),
      defaultEncoderID |-> ScryptName]}

\* The orders in which a range over the map m may yield its keys.
RangeOrders(m) ==
    {order \in [1..Cardinality(DOMAIN m) -> DOMAIN m] :
        \A i, j \in DOMAIN order : i # j => order[i] # order[j]}

\* Identifiers a stored envelope may carry.
Str_unknown == <<"u", "n", "k", "n", "o", "w", "n">>
IDs == {BcryptName, NoOpName, PBKDF2Name, ScryptName, Argon2Name, Str_unknown}

\* Envelopes the dispatcher's tests write by hand.
DispatchHandWritten ==
    {Str_invalid_format,
     <<"{", "b", "c", "r", "y", "p", "t">>,
     <<"b", "c", "r", "y", "p", "t", "}", "h", "a", "s", "h">>,
     <<"{", "u", "n", "k", "n", "o", "w", "n", "}", "p", "a", "s", "s", "w", "o", "r", "d">>,
     <<"{", "b", "c", "r", "y", "p", "t", "}", "h", "a", "s", "h">>,
     <<"{", "n", "o", "o", "p", "}", "{", "a", "}", "b">>}

\* The ways a stored "{id}inner" is damaged before the dispatcher sees it.
DispatchTamperKinds ==
    {"NoOpen", "NoClose", "Empty", "EmptyID", "UnknownID", "OtherHash", "TwoSegments"}

DispatchTamper(kind, id, inner) ==
    LET env == <<"{">> \o id \o <<"}">> \o inner
    IN  CASE kind = "NoOpen"    -> id \o <<"}">> \o inner
          [] kind = "NoClose"   -> <<"{">> \o id \o inner
          [] kind = "Empty"     -> <<>>
          [] kind = "EmptyID"   -> <<"{", "}">> \o inner
          [] kind = "UnknownID" -> <<"{">> \o Str_unknown \o <<"}">> \o inner
          [] OTHER              -> Tamper(kind, env)

\* d, err := NewDelegatingPasswordEncoder(defaultEncoderID, encoders...); a caller
\* that got an error keeps the dispatcher it had.
Deployed(rev, args, r, calls) ==
    /\ ctor' = [d |-> r.d, err |-> r.err, rev |-> rev,
                encoders |-> args.encoders, defaultEncoderID |-> args.defaultEncoderID, called |-> TRUE]
    /\ d' = IF r.err = Nil THEN r.d ELSE d
    /\ last' = NoCall
    /\ heap' = HeapAfter(heap, calls)
    /\ UNCHANGED procs
    /\ UNCHANGED stored

Deploy(args) ==
    Deployed("variadic", args,
             NewDelegatingPasswordEncoder(args.defaultEncoderID, args.encoders),
             NameCalls(args.defaultEncoderID, args.encoders))

\* d := NewDelegatingPasswordEncoder(defaultEncoderID, encoders) of the map revision.
DeployMap(args) ==
    Deployed("map", args,
             NewDelegatingPasswordEncoderMap(args.defaultEncoderID, args.encoders), <<>>)

\* encoded, err := d.Encode(raw); the caller stores what a successful call returned.
DEncoded(raw, rnd, r) ==
    /\ last' = [err |-> r.err, rnd |-> rnd, out |-> r.out,
                op |-> "DEncode", raw |-> raw, calls |-> r.calls]
    /\ stored' = IF r.err = Nil
                 THEN [rnd |-> rnd, id |-> SubSeq(r.out, 2, Index(r.out, "}") - 1), envelope |-> r.out,
                       present |-> TRUE, imported |-> FALSE, secret |-> raw,
                       by |-> d.DefaultEncoder,
                       inner |-> Drop(r.out, Index(r.out, "}") + 1)]
                 ELSE stored
    /\ d' = DelegatingReceiver(d, "Encode", raw, <<>>)
    /\ heap' = HeapAfter(heap, r.calls)
    /\ UNCHANGED procs
    /\ UNCHANGED ctor

DEncode(raw, rnd) ==
    /\ d.rev = "variadic"
    /\ ~stored.present
    /\ DEncoded(raw, rnd, DelegatingEncode(d, raw, rnd))

\* The same on a dispatcher of the map revision, whose range over the registry
\* takes one of its possible orders.
DEncodeScan(raw, rnd, order) ==
    /\ d.rev = "map"
    /\ ~stored.present
    /\ DEncoded(raw, rnd, DelegatingEncodeScan(d, raw, rnd, order))

DVerified(raw, encoded, kind, r) ==
    [err |-> r.err, matched |-> r.matched, steps |-> r.steps, op |-> "DVerify",
     raw |-> raw, encoded |-> encoded, calls |-> r.calls,
     lookups |-> r.lookups, kind |-> kind]

DVerifyRecord(raw, encoded, kind) ==
    DVerified(raw, encoded, kind, DelegatingVerify(d, raw, encoded))

\* matched, err := d.Verify(raw, stored envelope)
DVerifyStored(raw) ==
    /\ ~d.nil
    /\ stored.present
    /\ last' = DVerifyRecord(raw, stored.envelope, "none")
    /\ d' = DelegatingReceiver(d, "Verify", raw, stored.envelope)
    /\ heap' = HeapAfter(heap, last'.calls)
    /\ UNCHANGED procs
    /\ UNCHANGED <<ctor, stored>>

\* The same with the envelope's identifier replaced by another one.
DVerifyRelabelled(id) ==
    /\ ~d.nil
    /\ stored.present
    /\ ~stored.imported
    /\ last' = DVerifyRecord(stored.secret, <<"{">> \o id \o <<"}">> \o stored.inner, "Relabel")
    /\ d' = DelegatingReceiver(d, "Verify", last'.raw, last'.encoded)
    /\ heap' = HeapAfter(heap, last'.calls)
    /\ UNCHANGED procs
    /\ UNCHANGED <<ctor, stored>>

\* The same after the envelope was damaged.
DVerifyTampered(wrong, kind) ==
    /\ ~d.nil
    /\ stored.present
    /\ ~stored.imported
    /\ last' = DVerifyRecord(IF wrong THEN OtherSecret(stored.secret) ELSE stored.secret,
                             DispatchTamper(kind, stored.id, stored.inner), kind)
    /\ d' = DelegatingReceiver(d, "Verify", last'.raw, last'.encoded)
    /\ heap' = HeapAfter(heap, last'.calls)
    /\ UNCHANGED procs
    /\ UNCHANGED <<ctor, stored>>

\* A source of random bytes that works, and one that fails.
DispatchRandomSources == {rnd \in RandomSources : rnd.err # Nil \/ rnd.fill = 0}

Next ==
    \/ \E args \in Deployments : Deploy(args)
    \/ \E args \in MapDeployments : DeployMap(args)
    \/ \E raw \in Secrets, rnd \in DispatchRandomSources : DEncode(raw, rnd)
    \/ \E raw \in Secrets, rnd \in DispatchRandomSources, order \in RangeOrders(d.Encoders) :
          DEncodeScan(raw, rnd, order)
    \/ \E encoded \in DispatchHandWritten : Import(encoded)
    \/ Forget
    \/ \E raw \in Secrets : DVerifyStored(raw)
    \/ \E id \in IDs : DVerifyRelabelled(id)
    \/ \E kind \in DispatchTamperKinds, wrong \in BOOLEAN : DVerifyTampered(wrong, kind)

Spec == Init /\ [][Next]_vars

(***************************************************************************)
(* Calls of the dispatcher's constructor alone, over every argument list   *)
(* of up to MaxEncoders encoders.                                          *)
(***************************************************************************)

MaxEncoders == 2

ConstructInstances ==
    {BcryptEncoder, BcryptBadCost, NoOpEncoder, PBKDF2Test, PBKDF2Sha512, ScryptEncoder}

EncoderLists == UNION {[1..n -> ConstructInstances] : n \in 0..MaxEncoders}

\* The maps the map revision's constructor is given: one encoder per key, for
\* every set of at most MaxEncoders keys.
Keys == {BcryptName, NoOpName, Str_legacy}
EncoderMaps ==
    UNION {[ks -> {BcryptEncoder, NoOpEncoder}] :
              ks \in {s \in SUBSET Keys : Cardinality(s) <= MaxEncoders}}

Constructed(rev, defaultEncoderID, encoders, r, calls) ==
    /\ ctor' = [d |-> r.d, err |-> r.err, rev |-> rev,
                encoders |-> encoders, defaultEncoderID |-> defaultEncoderID, called |-> TRUE]
    /\ d' = r.d
    /\ heap' = HeapAfter(heap, calls)
    /\ UNCHANGED procs
    /\ UNCHANGED <<stored, last>>

Construct(defaultEncoderID, encoders) ==
    Constructed("variadic", defaultEncoderID, encoders,
                NewDelegatingPasswordEncoder(defaultEncoderID, encoders), NameCalls(defaultEncoderID, encoders))

ConstructMap(defaultEncoderID, encoders) ==
    Constructed("map", defaultEncoderID, encoders,
                NewDelegatingPasswordEncoderMap(defaultEncoderID, encoders), <<>>)

NextConstruct ==
    \/ \E defaultEncoderID \in IDs \cup {<<>>}, encoders \in EncoderLists :
          Construct(defaultEncoderID, encoders)
    \/ \E defaultEncoderID \in IDs \cup {<<>>}, encoders \in EncoderMaps :
          ConstructMap(defaultEncoderID, encoders)

SpecConstruct == Init /\ [][NextConstruct]_vars

(***************************************************************************)
(* Concurrent calls.  Each of MaxProcs goroutines makes calls on encoders  *)
(* and on one dispatcher that all of them share; a call runs statement by  *)
(* statement, and the statements of different goroutines interleave.  A    *)
(* statement reads the receiver's fields at the moment it runs.            *)
(***************************************************************************)

\* The dispatcher the goroutines share.
ConcurrentDispatcher ==
    NewDelegatingPasswordEncoder(PBKDF2Name, <<BcryptEncoder, NoOpEncoder, PBKDF2Test>>).d

\* An envelope the goroutines verify: PBKDF2Test's for the secret "a".
ConcurrentEnvelope == PBKDF2Encode(PBKDF2Test, <<"a">>, [err |-> Nil, fill |-> 0]).out

\* What a call hands back to its caller: (encoded, err) or (matched, err).
Returned(op, r) ==
    IF op \in {"Encode", "DEncode"} THEN <<r.out, r.err>> ELSE <<r.matched, r.err>>

\* What the call returns when no other call runs at the same time.
Alone(op, ptr, raw, encoded, rnd) ==
    Returned(op, CASE op = "Encode"  -> Encode(heap[ptr], raw, rnd)
                   [] op = "Verify"  -> Verify(heap[ptr], raw, encoded)
                   [] op = "DEncode" -> DelegatingEncode(d, raw, rnd)
                   [] op = "DVerify" -> DelegatingVerify(d, raw, encoded))

\* A call as it is made: with what it would return alone, and whether another
\* goroutine was in the middle of a call at that moment.
Call(op, ptr, raw, encoded, rnd) ==
    [rnd |-> rnd, ptr |-> ptr, op |-> op, raw |-> raw, encoded |-> encoded,
     alone |-> Alone(op, ptr, raw, encoded, rnd),
     during |-> \E h \in Procs : procs[h].pc \notin {"idle", "done"}]

\* The calls the goroutines make.
ConcurrentCalls ==
    {<<"Encode", PBKDF2Test.ptr, <<"a">>, <<>>, [err |-> Nil, fill |-> 0]>>,
     <<"Encode", PBKDF2Test.ptr, <<"a">>, <<>>, [err |-> Nil, fill |-> 171]>>,
     <<"Encode", PBKDF2Test.ptr, <<"a">>, <<>>, [err |-> ErrRandRead, fill |-> 0]>>,
     <<"Encode", ScryptBadN.ptr, <<"a">>, <<>>, [err |-> Nil, fill |-> 0]>>,
     <<"Encode", BcryptEncoder.ptr, <<"a">>, <<>>, [err |-> Nil, fill |-> 0]>>,
     <<"Verify", PBKDF2Encoder.ptr, <<"a">>, ConcurrentEnvelope, [err |-> Nil, fill |-> 0]>>,
     <<"DEncode", 0, <<"a">>, <<>>, [err |-> Nil, fill |-> 171]>>,
     <<"DVerify", 0, <<"a">>, <<"{">> \o PBKDF2Name \o <<"}">> \o ConcurrentEnvelope,
       [err |-> Nil, fill |-> 0]>>,
     <<"DVerify", 0, <<"a">>, <<"{">> \o Str_unknown \o <<"}">> \o ConcurrentEnvelope,
       [err |-> Nil, fill |-> 0]>>}

\* The first statement of an encoder's Encode: the composite encoders begin by
\* drawing a salt; bcrypt and NoOp hand the whole work to one library call.
EncodeEntry(e) == IF Composite(e) THEN "salt" ELSE "whole"

\* A faulty Encode that keeps its salt in one buffer shared by every call.
SaltBufferShared(g) == 1

\* salt := make([]byte, e.SaltLen): the buffer belongs to the call that made it.
SaltBuffer(g) == g

\* The KDF call of a composite Encode, on the receiver's parameters.
DeriveKey(e, rawPassword, salt) ==
    CASE e.scheme = "pbkdf2" ->
            KeyResult(PBKDF2Key(rawPassword, salt, e.Iterations, e.KeyLen, e.HashFunc), Nil)
      [] e.scheme = "scrypt" -> ScryptKey(rawPassword, salt, e.N, e.R, e.P, e.KeyLen)
      [] e.scheme = "argon2" ->
            Argon2IDKey(rawPassword, salt, e.Time, e.Memory, e.Threads, e.KeyLen)

\* The parameter block a composite Encode formats from the receiver's parameters.
ParamBlock(e) ==
    CASE e.scheme = "pbkdf2" ->
            Str_iterations \o FormatInt(e.Iterations) \o Str_keyLen \o FormatInt(e.KeyLen)
                \o Str_hashFunc \o e.HashFuncName
      [] e.scheme = "scrypt" ->
            Str_N \o FormatInt(e.N) \o Str_r \o FormatInt(e.R) \o Str_p \o FormatInt(e.P)
                \o Str_keyLen \o FormatInt(e.KeyLen)
      [] e.scheme = "argon2" ->
            Str_time \o FormatInt(e.Time) \o Str_memory \o FormatInt(e.Memory)
                \o Str_threads \o FormatInt(e.Threads) \o Str_keyLen \o FormatInt(e.KeyLen)

\* The encoder's method has returned res: a direct call is over, and the
\* dispatcher's Encode goes on to its own return statement.
EncoderReturns(f, res) ==
    [f EXCEPT !.pc = IF f.call.op = "DEncode" THEN "prefix" ELSE "done", !.res = res]

\* The encoder object at ptr after its method op has run (see Receiver).
WriteBack(ptr, op, rawPassword, encodedPassword) ==
    heap' = [heap EXCEPT ![ptr] = Receiver(heap[ptr], op, rawPassword, encodedPassword)]

\* A goroutine calls Encode or Verify, of an encoder or of the dispatcher.
Enter(g, op, ptr, raw, encoded, rnd) ==
    /\ procs[g].pc = "idle"
    /\ procs' = [procs EXCEPT ![g] =
                    [@ EXCEPT !.pc = CASE op = "Encode"  -> EncodeEntry(heap[ptr])
                                       [] op = "Verify"  -> "verify"
                                       [] op = "DEncode" -> "default"
                                       [] op = "DVerify" -> "route",
                              !.call = Call(op, ptr, raw, encoded, rnd),
                              !.ptr = ptr,
                              !.encoded = encoded]]
    /\ UNCHANGED <<d, ctor, stored, last, heap>>

\* d.DefaultEncoder.Encode(rawPassword): the dispatcher reads its default encoder.
StepDefault(g) ==
    /\ procs[g].pc = "default"
    /\ procs' = [procs EXCEPT ![g] =
                    [@ EXCEPT !.pc = EncodeEntry(heap[d.DefaultEncoder.ptr]),
                              !.ptr = d.DefaultEncoder.ptr]]
    /\ UNCHANGED <<d, ctor, stored, last, heap>>

\* salt := make([]byte, e.SaltLen); rand.Read(salt)
StepSalt(g) ==
    /\ procs[g].pc = "salt"
    /\ IF procs[g].call.rnd.err # Nil
       THEN /\ procs' = [procs EXCEPT ![g] =
                            EncoderReturns(@, <<<<>>, procs[g].call.rnd.err>>)]
            /\ WriteBack(procs[g].ptr, "Encode", procs[g].call.raw, <<>>)
       ELSE /\ procs' = [procs EXCEPT ![g].pc = "key",
                                      ![SaltBuffer(g)].salt =
                                          RandomSalt(heap[procs[g].ptr].SaltLen,
                                                     procs[g].call.rnd)]
            /\ UNCHANGED heap
    /\ UNCHANGED <<d, ctor, stored, last>>

\* The KDF call: pbkdf2.Key, scrypt.Key or argon2.IDKey on the salt.
StepKey(g) ==
    /\ procs[g].pc = "key"
    /\ LET k == DeriveKey(heap[procs[g].ptr], procs[g].call.raw,
                          procs[SaltBuffer(g)].salt)
       IN  IF k.err # Nil
           THEN /\ procs' = [procs EXCEPT ![g] = EncoderReturns(@, <<<<>>, k.err>>)]
                /\ WriteBack(procs[g].ptr, "Encode", procs[g].call.raw, <<>>)
           ELSE /\ procs' = [procs EXCEPT ![g].pc = "text", ![g].key = k.key]
                /\ UNCHANGED heap
    /\ UNCHANGED <<d, ctor, stored, last>>

\* The base64 encodings and the fmt.Sprintf of a composite Encode.
StepText(g) ==
    /\ procs[g].pc = "text"
    /\ procs' = [procs EXCEPT ![g] =
                    EncoderReturns(@, <<ParamBlock(heap[procs[g].ptr])
                                            \o <<"$">> \o StdEncode(procs[SaltBuffer(g)].salt)
                                            \o <<"$">> \o StdEncode(procs[g].key),
                                        Nil>>)]
    /\ WriteBack(procs[g].ptr, "Encode", procs[g].call.raw, <<>>)
    /\ UNCHANGED <<d, ctor, stored, last>>

\* Encode of bcrypt and of NoOp.
StepWhole(g) ==
    /\ procs[g].pc = "whole"
    /\ procs' = [procs EXCEPT ![g] =
                    EncoderReturns(@, Returned("Encode",
                                               Encode(heap[procs[g].ptr], procs[g].call.raw,
                                                      procs[g].call.rnd)))]
    /\ WriteBack(procs[g].ptr, "Encode", procs[g].call.raw, <<>>)
    /\ UNCHANGED <<d, ctor, stored, last>>

\* The dispatcher's Encode returns: the error, or the prefix and the envelope.
StepPrefix(g) ==
    /\ procs[g].pc = "prefix"
    /\ procs' = [procs EXCEPT ![g].pc = "done",
                              ![g].res =
                                  Returned("DEncode",
                                           DelegatingEncodeReturn(
                                               d, EncodeResult(procs[g].res[1], procs[g].res[2]),
                                               <<>>))]
    /\ d' = DelegatingReceiver(d, "Encode", procs[g].call.raw, <<>>)
    /\ UNCHANGED <<ctor, stored, last, heap>>

\* The dispatcher's Verify up to its call of the encoder: the prefix is
\* extracted and the identifier looked up in the registry.
StepRoute(g) ==
    /\ procs[g].pc = "route"
    /\ LET x == extractIDAndHash(procs[g].encoded)
       IN  procs' = [procs EXCEPT ![g] =
                        IF x.err # Nil
                        THEN [@ EXCEPT !.pc = "done", !.res = <<FALSE, x.err>>]
                        ELSE IF x.id \notin DOMAIN d.Encoders
                        THEN [@ EXCEPT !.pc = "done", !.res = <<FALSE, ErrUnknownEncoding>>]
                        ELSE [@ EXCEPT !.pc = "verify", !.ptr = d.Encoders[x.id].ptr,
                                       !.encoded = x.hash]]
    /\ d' = DelegatingReceiver(d, "Verify", procs[g].call.raw, procs[g].encoded)
    /\ UNCHANGED <<ctor, stored, last, heap>>

\* An encoder's Verify.
StepVerify(g) ==
    /\ procs[g].pc = "verify"
    /\ procs' = [procs EXCEPT ![g].pc = "done",
                              ![g].res =
                                  Returned("Verify",
                                           Verify(heap[procs[g].ptr], procs[g].call.raw,
                                                  procs[g].encoded))]
    /\ WriteBack(procs[g].ptr, "Verify", procs[g].call.raw, procs[g].encoded)
    /\ UNCHANGED <<d, ctor, stored, last>>

\* The caller takes the result; the goroutine is free for its next call.
Return(g) ==
    /\ procs[g].pc = "done"
    /\ procs' = [procs EXCEPT ![g] = Idle]
    /\ UNCHANGED <<d, ctor, stored, last, heap>>

InitConcurrent ==
    /\ d = ConcurrentDispatcher
    /\ ctor = NoConstruction
    /\ stored = NoCredential
    /\ last = NoCall
    /\ heap = HeapAtConstruction
    /\ procs = NoGoroutines

NextConcurrent ==
    \/ \E g \in Procs, c \in ConcurrentCalls : Enter(g, c[1], c[2], c[3], c[4], c[5])
    \/ \E g \in Procs : StepDefault(g)
    \/ \E g \in Procs : StepSalt(g)
    \/ \E g \in Procs : StepKey(g)
    \/ \E g \in Procs : StepText(g)
    \/ \E g \in Procs : StepWhole(g)
    \/ \E g \in Procs : StepPrefix(g)
    \/ \E g \in Procs : StepRoute(g)
    \/ \E g \in Procs : StepVerify(g)
    \/ \E g \in Procs : Return(g)

SpecConcurrent == InitConcurrent /\ [][NextConcurrent]_vars

(***************************************************************************)
(* Calls of the scheme encoders' constructors alone: the option form with  *)
(* every list of up to MaxOptions options, and the positional form.        *)
(***************************************************************************)

MaxOptions == 2

\* The options of each scheme, each with a zero and with another value.
OptionsOf(scheme) ==
    CASE scheme = "pbkdf2" ->
            {WithPBKDF2Iterations(v) : v \in {0, 1000}}
                \cup {WithPBKDF2KeyLen(v) : v \in {0, 64}}
                \cup {WithPBKDF2SaltLen(v) : v \in {0, 8}}
                \cup {WithPBKDF2HashFunc("sha512.New", Str_sha512)}
      [] scheme = "scrypt" ->
            {WithScryptN(v) : v \in {0, 1024}} \cup {WithScryptR(v) : v \in {0, 4}}
                \cup {WithScryptP(v) : v \in {0, 2}}
                \cup {WithScryptKeyLen(v) : v \in {0, 64}}
                \cup {WithScryptSaltLen(v) : v \in {0, 8}}
      [] scheme = "argon2" ->
            {WithArgon2Time(v) : v \in {0, 3}} \cup {WithArgon2Memory(v) : v \in {0, 1024}}
                \cup {WithArgon2Threads(v) : v \in {0, 2}}
                \cup {WithArgon2KeyLen(v) : v \in {0, 64}}
                \cup {WithArgon2SaltLen(v) : v \in {0, 8}}
      [] scheme = "bcrypt" -> {WithCost(v) : v \in {0, 4, 12}}

OptionLists(scheme) == UNION {[1..n -> OptionsOf(scheme)] : n \in 0..MaxOptions}

\* The address the new encoder gets: one no other encoder has.
NewAddress == CHOOSE p \in 1..(Cardinality(DOMAIN heap) + 1) : p \notin DOMAIN heap

\* The constructor, called once in a run, returned e.
Made(form, scheme, opts, args, e) ==
    /\ ctor = NoConstruction
    /\ ctor' = [e |-> e, scheme |-> scheme, opts |-> opts, called |-> FALSE,
                args |-> args, form |-> form]
    /\ UNCHANGED <<d, stored, last, heap, procs>>

NewWithOptions(scheme, opts) ==
    Made("options", scheme, opts, <<>>,
         CASE scheme = "pbkdf2" -> NewPBKDF2PasswordEncoder(NewAddress, opts)
           [] scheme = "scrypt" -> NewScryptPasswordEncoder(NewAddress, opts)
           [] scheme = "argon2" -> NewArgon2PasswordEncoder(NewAddress, opts)
           [] scheme = "bcrypt" -> NewBcryptPasswordEncoder(NewAddress, opts))

\* The argument lists of the positional constructors: each argument zero or not.
PositionalArgs(scheme) ==
    CASE scheme = "pbkdf2" ->
            {0, 1000} \X {0, 64} \X {0, 8} \X {"nil", "sha256.New", "sha512.New"}
      [] scheme = "scrypt" -> {0, 1024} \X {0, 4} \X {0, 2} \X {0, 64} \X {0, 8}
      [] scheme = "argon2" -> {0, 3} \X {0, 1024} \X {0, 2} \X {0, 64} \X {0, 8}
      [] scheme = "bcrypt" -> {<<0>>, <<4>>, <<12>>}

NewPositional(scheme, args) ==
    Made("positional", scheme, <<>>, args,
         CASE scheme = "pbkdf2" ->
                 NewPBKDF2PasswordEncoderPositional(NewAddress, args[1], args[2], args[3],
                                                    args[4])
           [] scheme = "scrypt" ->
                 NewScryptPasswordEncoderPositional(NewAddress, args[1], args[2], args[3],
                                                    args[4], args[5])
           [] scheme = "argon2" ->
                 NewArgon2PasswordEncoderPositional(NewAddress, args[1], args[2], args[3],
                                                    args[4], args[5])
           [] scheme = "bcrypt" -> NewBcryptPasswordEncoderPositional(NewAddress, args[1]))

NextNew ==
    \/ \E scheme \in {"pbkdf2", "scrypt", "argon2", "bcrypt"} :
          \E opts \in OptionLists(scheme) : NewWithOptions(scheme, opts)
    \/ \E scheme \in {"pbkdf2", "scrypt", "argon2", "bcrypt"} :
          \E args \in PositionalArgs(scheme) : NewPositional(scheme, args)

SpecNew == Init /\ [][NextNew]_vars

(***************************************************************************)
(* Calls of extractIDAndHash alone, on every text of up to MaxTextLen      *)
(* characters over "a", "$", "{" and "}".                                  *)
(***************************************************************************)

MaxTextLen == 5

Texts == UNION {[1..n -> {"a", "$", "{", "}"}] : n \in 0..MaxTextLen}

\* id, hash, err := extractIDAndHash(encodedPassword)
Extract(encodedPassword) ==
    /\ last = NoCall
    /\ last' = [x |-> extractIDAndHash(encodedPassword), op |-> "extract",
                encoded |-> encodedPassword]
    /\ UNCHANGED <<d, ctor, stored, heap, procs>>

NextExtract == \E encodedPassword \in Texts : Extract(encodedPassword)

SpecExtract == Init /\ [][NextExtract]_vars

(***************************************************************************)
(* The properties.                                                         *)
(***************************************************************************)

\* A Verify call of the encoder that made the stored envelope, on that envelope.
OwnVerify ==
    /\ last.op = "Verify"
    /\ last.kind = "none"
    /\ ~stored.imported
    /\ last.recv = stored.by

\* C1: round trip.  When e.Encode(p) returned an envelope, e.Verify(p, envelope)
\* returns (true, nil), for every scheme encoder e and every secret p.
C1_RoundTrip ==
    (OwnVerify /\ last.raw = stored.secret) => (last.matched /\ last.err = Nil)

\* C1: a round trip that came out as (true, nil), for a secret with non-ASCII bytes.
C1_Witness ==
    /\ OwnVerify
    /\ last.raw = stored.secret
    /\ stored.secret = <<"xC3", "xA9">>
    /\ stored.by = ScryptEncoder
    /\ last.matched
    /\ last.err = Nil

\* C2: negative match.  When e.Encode(p1) returned an envelope and p2 # p1,
\* e.Verify(p2, envelope) returns (false, nil).
C2_NegativeMatch ==
    (OwnVerify /\ last.raw # stored.secret) => (~last.matched /\ last.err = Nil)

\* C2: a wrong secret that came out as (false, nil).
C2_Witness ==
    /\ OwnVerify
    /\ last.raw # stored.secret
    /\ stored.by = BcryptEncoder
    /\ ~last.matched
    /\ last.err = Nil

\* C3: the dispatcher's Encode returns "{" + defaultID + "}" followed by what the
\* default encoder's Encode returned, defaultID being the default identifier the
\* constructor was given; when the default encoder fails it returns "" and that error.
C3_EncodePrefix ==
    last.op = "DEncode" =>
        /\ Len(last.calls) = 1
        /\ last.calls[1] = EncoderCall(d.DefaultEncoder, "Encode", last.raw, <<>>)
        /\ LET inner == Encode(d.DefaultEncoder, last.raw, last.rnd)
           IN  IF inner.err = Nil
               THEN /\ last.err = Nil
                    /\ last.out = <<"{">> \o ctor.defaultEncoderID \o <<"}">> \o inner.out
               ELSE /\ last.err = inner.err
                    /\ last.out = <<>>

\* C3: an Encode of a dispatcher of the variadic revision that returned an envelope.
C3_Witness ==
    /\ last.op = "DEncode"
    /\ d.rev = "variadic"
    /\ last.err = Nil
    /\ ctor.defaultEncoderID = NoOpName
    /\ last.out = <<"{", "n", "o", "o", "p", "}", "a", "$", "$", "b">>

\* C3 for the variadic revision alone.
C3_EncodePrefixVariadic == d.rev = "variadic" => C3_EncodePrefix

\* The places k of a "}" in the envelope such that the envelope is "{id}inner" with
\* id, the text before place k, a key of the registry.
RoutedAt ==
    {k \in 2..Len(last.encoded) :
        /\ last.encoded[1] = "{"
        /\ last.encoded[k] = "}"
        /\ SubSeq(last.encoded, 2, k - 1) \in DOMAIN d.Encoders}

\* C4: the dispatcher's Verify of "{id}inner", id a key of the registry, calls
\* Verify(secret, inner) on the encoder registered under id and on no other, and
\* returns that call's result and error as they are.
C4_Routes ==
    last.op = "DVerify" =>
        \A k \in RoutedAt :
            LET id      == SubSeq(last.encoded, 2, k - 1)
                inner   == Drop(last.encoded, k + 1)
                r       == Verify(d.Encoders[id], last.raw, inner)
            IN  /\ last.calls = <<EncoderCall(d.Encoders[id], "Verify", last.raw, inner)>>
                /\ last.matched = r.matched
                /\ last.err = r.err

\* C4: a Verify routed to an encoder that is not the default one, which matched.
C4_Witness ==
    /\ last.op = "DVerify"
    /\ RoutedAt # {}
    /\ Len(last.calls) = 1
    /\ last.calls[1].enc # d.DefaultEncoder
    /\ last.calls[1].enc.scheme = "pbkdf2"
    /\ last.matched

\* The place of the first "}" of the envelope, 0 when it has none.
FirstClose ==
    IF \E k \in 1..Len(last.encoded) : last.encoded[k] = "}"
    THEN CHOOSE k \in 1..Len(last.encoded) :
            /\ last.encoded[k] = "}"
            /\ \A j \in 1..(k - 1) : last.encoded[j] # "}"
    ELSE 0

\* The envelope is routed: it starts with "{" and has a "}".
Routed ==
    /\ Len(last.encoded) > 0
    /\ last.encoded[1] = "{"
    /\ FirstClose > 0

\* C5: the dispatcher's Verify of a routed envelope whose identifier, the empty one
\* of "{}..." included, is no key of the registry returns (false, ErrUnknownEncoding)
\* and calls no encoder.
C5_UnknownEncoding ==
    (/\ last.op = "DVerify"
     /\ Routed
     /\ SubSeq(last.encoded, 2, FirstClose - 1) \notin DOMAIN d.Encoders)
    => /\ ~last.matched
       /\ last.err = ErrUnknownEncoding
       /\ last.calls = <<>>

\* C5: a Verify of "{}..." by a dispatcher whose default encoder would have matched.
C5_Witness ==
    /\ last.op = "DVerify"
    /\ last.kind = "EmptyID"
    /\ Routed
    /\ FirstClose = 2
    /\ Verify(d.DefaultEncoder, last.raw, Drop(last.encoded, 3)).matched
    /\ last.err = ErrUnknownEncoding

\* C6: the dispatcher's Verify of an envelope that is empty, does not start with
\* "{" or has no "}" returns (false, ErrInvalidFormat), looks nothing up in the
\* registry and calls no encoder.
C6_InvalidFormat ==
    (last.op = "DVerify" /\ ~Routed)
    => /\ ~last.matched
       /\ last.err = ErrInvalidFormat
       /\ last.lookups = <<>>
       /\ last.calls = <<>>

\* C6: a Verify of an envelope that has a "}" and no leading "{".
C6_Witness ==
    /\ last.op = "DVerify"
    /\ last.kind = "NoOpen"
    /\ Len(last.encoded) > 0
    /\ last.encoded[1] # "{"
    /\ FirstClose > 0
    /\ last.err = ErrInvalidFormat

\* The keys of the registry a constructor call builds: the names of the encoders
\* it was given, or the keys of the map it was given.
RegistryKeys ==
    IF ctor.rev = "map" THEN DOMAIN ctor.encoders
    ELSE {Name(ctor.encoders[i]) : i \in 1..Len(ctor.encoders)}

\* C7: constructing a dispatcher fails with an error and returns no dispatcher when
\* the default identifier is empty, when no encoders are given, or when the default
\* identifier is no key of the registry built from them; otherwise it succeeds.
C7_Construction ==
    ctor.called =>
        IF \/ ctor.defaultEncoderID = <<>>
           \/ RegistryKeys = {}
           \/ ctor.defaultEncoderID \notin RegistryKeys
        THEN ctor.err # Nil /\ ctor.d.nil
        ELSE ctor.err = Nil /\ ~ctor.d.nil

\* C7 for the variadic revision alone.
C7_ConstructionVariadic == (ctor.called /\ ctor.rev = "variadic") => C7_Construction

\* C7: a construction turned down because the default identifier names none of
\* the encoders given.
C7_Witness ==
    /\ ctor.called
    /\ ctor.rev = "variadic"
    /\ ctor.defaultEncoderID = ScryptName
    /\ ctor.encoders = <<BcryptEncoder, NoOpEncoder>>
    /\ ctor.err = ErrDefaultNotFound
    /\ d.nil

\* A Verify by the dispatcher of the envelope an earlier dispatcher made, for the
\* secret it was made for, when the default has moved to another scheme and an
\* encoder of the old scheme is still registered under the old identifier.
AfterDefaultChange ==
    /\ last.op = "DVerify"
    /\ last.kind = "none"
    /\ ~stored.imported
    /\ last.raw = stored.secret
    /\ stored.id \in DOMAIN d.Encoders
    /\ d.Encoders[stored.id].scheme = stored.by.scheme
    /\ d.DefaultEncoder.scheme # stored.by.scheme

\* C8: algorithm agility.  An envelope made by a dispatcher whose default was scheme
\* A verifies as (true, nil) for its secret under every later dispatcher whose
\* default is another scheme, as long as an encoder named A is registered.
C8_Agility ==
    AfterDefaultChange => (last.matched /\ last.err = Nil)

\* C8: a bcrypt envelope verified after the default moved to pbkdf2.
C8_Witness ==
    /\ AfterDefaultChange
    /\ stored.by = BcryptEncoder
    /\ d.DefaultEncoder = PBKDF2Test
    /\ last.matched
    /\ last.err = Nil

\* C8 for the envelopes whose own encoder verifies them.
C8_AgilityOfVerifiable ==
    (AfterDefaultChange /\ Verify(stored.by, stored.secret, stored.inner).matched)
    => (last.matched /\ last.err = Nil)

\* The number of "$" in s.
Dollars(s) == Cardinality({i \in 1..Len(s) : s[i] = "$"})

\* C9: a composite scheme's Verify of an envelope that does not split on "$" into
\* exactly 3 segments returns matched = false and the invalid-format condition,
\* which the package exposes as ErrInvalidFormat.
C9_SegmentCount ==
    (last.op = "Verify" /\ Composite(last.recv) /\ Dollars(last.encoded) # 2)
    => (~last.matched /\ last.err = ErrInvalidFormat)

\* What the composite encoders do return for such an envelope: matched = false and
\* an error made on the spot by fmt.Errorf, which is not ErrInvalidFormat.
C9_SegmentCountRejected ==
    (last.op = "Verify" /\ Composite(last.recv) /\ Dollars(last.encoded) # 2)
    => (~last.matched /\ last.err = ErrEncodedFormat /\ last.err # ErrInvalidFormat)

\* C9: a Verify, for the right secret, of an envelope of 4 segments that a pbkdf2
\* encoder made 3 of.
C9_Witness ==
    /\ last.op = "Verify"
    /\ last.recv.scheme = "pbkdf2"
    /\ last.kind = "FourSegments"
    /\ last.raw = stored.secret
    /\ Dollars(last.encoded) = 3
    /\ Verify(last.recv, last.raw, stored.envelope).matched
    /\ last.err = ErrEncodedFormat

\* The call went as far as comparing the recomputed hash with the stored one.
Compared == \E i \in 1..Len(last.steps) : last.steps[i] = "compare"

\* C10: a hash mismatch is no error.  A Verify that compared the recomputed hash
\* with the stored one returns a nil error, and a Verify that returns an error has
\* compared nothing; bcrypt's Verify returns (false, nil) for the primitive's
\* mismatch signal and (false, err) for every other error err of the primitive.
C10_MismatchNoError ==
    last.op = "Verify" =>
        /\ Compared => last.err = Nil
        /\ last.err # Nil => ~last.matched
        /\ last.recv.scheme = "bcrypt" =>
              LET err == BcryptCompareHashAndPassword(last.encoded, last.raw)
              IN  /\ err = ErrMismatchedHashAndPassword => (~last.matched /\ last.err = Nil)
                  /\ err \notin {Nil, ErrMismatchedHashAndPassword} =>
                        (~last.matched /\ last.err = err)

\* C10: bcrypt's Verify of a wrong secret, which the primitive signals as a mismatch.
C10_Witness ==
    /\ last.op = "Verify"
    /\ last.recv.scheme = "bcrypt"
    /\ last.kind = "none"
    /\ ~stored.imported
    /\ last.raw # stored.secret
    /\ BcryptCompareHashAndPassword(last.encoded, last.raw) = ErrMismatchedHashAndPassword
    /\ ~last.matched
    /\ last.err = Nil

\* C11: the NoOp scheme.  Encode(p) returns (p, nil) for every p, and Verify(a, b)
\* returns (a = b, nil) for every pair of strings, the empty ones included.
C11_NoOp ==
    /\ (last.op = "Encode" /\ last.recv.scheme = "noop")
          => (last.out = last.raw /\ last.err = Nil)
    /\ (last.op = "Verify" /\ last.recv.scheme = "noop")
          => (last.matched = (last.raw = last.encoded) /\ last.err = Nil)

\* C11: the NoOp Verify of a non-empty password against the empty stored text that
\* NoOp's Encode("") returned, which does not match.
C11_Witness ==
    /\ last.op = "Verify"
    /\ last.recv.scheme = "noop"
    /\ stored.present
    /\ ~stored.imported
    /\ stored.by.scheme = "noop"
    /\ stored.secret = <<>>
    /\ last.encoded = <<>>
    /\ last.raw = <<"a">>
    /\ ~last.matched
    /\ last.err = Nil

\* C12: every envelope a successful Encode of a composite scheme returns, whatever
\* the encoder's configuration, splits on "$" into exactly 3 segments: the parameter
\* block, the base64 salt and the base64 hash.
C12_ThreeSegments ==
    (last.op = "Encode" /\ Composite(last.recv) /\ last.err = Nil)
    => /\ Len(Split(last.out, "$")) = 3
       /\ DecodeOK(StdAlphabet, Split(last.out, "$")[2])
       /\ DecodeOK(StdAlphabet, Split(last.out, "$")[3])

\* C12: a successful Encode of a scrypt encoder, whose envelope has 3 segments.
C12_Witness ==
    /\ last.op = "Encode"
    /\ last.recv = ScryptEncoder
    /\ last.err = Nil
    /\ Len(Split(last.out, "$")) = 3
    /\ Len(Split(last.out, "$")[2]) > 0

\* The encoder's hash function name, when it has one, holds no "$".
PlainHashFuncName(e) ==
    e.scheme = "pbkdf2" => \A i \in 1..Len(e.HashFuncName) : e.HashFuncName[i] # "$"

\* C12 for the encoders whose hash function name holds no "$".
C12_ThreeSegmentsPlainName ==
    (last.op = "Encode" /\ PlainHashFuncName(last.recv)) => C12_ThreeSegments

C14_Immutable ==
    [][/\ heap' = heap
       /\ (last'.op \in {"Encode", "Verify", "DEncode", "DVerify"}) => d' = d]_vars

\* C14: a dispatcher and encoder objects that are as their constructors left them
\* after an Encode and a Verify routed to a PBKDF2 encoder of another configuration.
C14_Witness ==
    /\ last.op = "DVerify"
    /\ stored.present
    /\ ~stored.imported
    /\ stored.by = PBKDF2Test
    /\ Len(last.calls) = 1
    /\ last.calls[1].enc = PBKDF2Encoder
    /\ last.matched
    /\ d = ctor.d
    /\ heap = HeapAtConstruction

\* C15: Encode and Verify are safe under concurrent invocation: in every
\* interleaving of the calls of several goroutines, each call returns what it
\* would return if it ran alone, and no call writes to state the calls share
\* (the encoder objects and the dispatcher stay as they were constructed).
C15_ConcurrentSafe ==
    /\ heap = HeapAtConstruction
    /\ d = ConcurrentDispatcher
    /\ \A g \in Procs : procs[g].pc = "done" => procs[g].res = procs[g].call.alone

\* Two Encode calls of the same PBKDF2 encoder have overlapped, each with its own
\* salt, and both have returned their envelopes.
C15_Witness ==
    /\ procs[1].pc = "done"
    /\ procs[2].pc = "done"
    /\ procs[1].call.op = "Encode"
    /\ procs[2].call.op = "Encode"
    /\ procs[1].ptr = PBKDF2Test.ptr
    /\ procs[2].ptr = PBKDF2Test.ptr
    /\ procs[2].call.during
    /\ procs[1].res[2] = Nil
    /\ procs[2].res[2] = Nil
    /\ procs[1].res[1] # procs[2].res[1]

\* C16: when the random source fails during the Encode of a composite scheme, that
\* Encode returns the empty string and the source's error, and the dispatcher's
\* Encode returns the empty string and the same error, with no prefix.
C16_RandomFailure ==
    (/\ last.op = "DEncode"
     /\ last.rnd.err # Nil
     /\ Len(last.calls) = 1
     /\ Composite(last.calls[1].enc))
        => /\ Encode(last.calls[1].enc, last.raw, last.rnd) = EncodeResult(<<>>, last.rnd.err)
           /\ last.out = <<>>
           /\ last.err = last.rnd.err

\* The dispatcher's Encode has called its PBKDF2 default while the random source
\* was failing, and has returned the empty string and the source's error.
C16_Witness ==
    /\ last.op = "DEncode"
    /\ last.rnd.err = ErrRandRead
    /\ Len(last.calls) = 1
    /\ last.calls[1].enc = PBKDF2Test
    /\ last.calls[1].op = "Encode"
    /\ last.out = <<>>
    /\ last.err = ErrRandRead

\* C17: a PBKDF2 Verify of a three-segment envelope whose parameter block names a
\* hash function other than "sha256" returns matched=false and the
\* unsupported-hash-function error, whatever hash function the verifying encoder
\* is configured with, having neither decoded the salt nor computed a hash.
C17_UnsupportedHash ==
    (/\ last.op = "Verify"
     /\ last.recv.scheme = "pbkdf2"
     /\ Len(Split(last.encoded, "$")) = 3
     /\ PBKDF2ScanParams(Split(last.encoded, "$")[1]).ok
     /\ PBKDF2ScanParams(Split(last.encoded, "$")[1]).vals[3] # Str_sha256)
        => /\ ~last.matched
           /\ last.err = ErrUnsupportedHash
           /\ last.steps = <<"scan">>

\* The encoder configured with SHA-512 has verified, with the right secret, the
\* envelope it wrote itself ("hashFunc=sha512") and has rejected it after the scan.
C17_Witness ==
    /\ last.op = "Verify"
    /\ last.kind = "none"
    /\ stored.present
    /\ stored.by = PBKDF2Sha512
    /\ last.recv = PBKDF2Sha512
    /\ last.raw = stored.secret
    /\ last.encoded = stored.envelope
    /\ ~last.matched
    /\ last.err = ErrUnsupportedHash
    /\ last.steps = <<"scan">>

\* The Verify of a composite encoder was handed three segments of which the first
\* scans as that scheme's parameter block (and, for PBKDF2, names "sha256") and
\* the second or the third is not standard padded base64.
BadBase64Segment ==
    /\ last.op = "Verify"
    /\ Composite(last.recv)
    /\ Len(Split(last.encoded, "$")) = 3
    /\ CASE last.recv.scheme = "pbkdf2" ->
               /\ PBKDF2ScanParams(Split(last.encoded, "$")[1]).ok
               /\ PBKDF2ScanParams(Split(last.encoded, "$")[1]).vals[3] = Str_sha256
         [] last.recv.scheme = "scrypt" -> ScryptScanParams(Split(last.encoded, "$")[1]).ok
         [] last.recv.scheme = "argon2" -> Argon2ScanParams(Split(last.encoded, "$")[1]).ok
    /\ \/ ~DecodeOK(StdAlphabet, Split(last.encoded, "$")[2])
       \/ ~DecodeOK(StdAlphabet, Split(last.encoded, "$")[3])

\* The call ran the KDF.
RanKDF == \E i \in 1..Len(last.steps) : last.steps[i] = "kdf"

\* C18: for every composite scheme, Verify of a three-segment envelope with a valid
\* parameter block whose salt or hash segment is not valid standard padded base64
\* fails with the InvalidFormat condition and matched=false, without running the KDF.
C18_BadBase64 ==
    BadBase64Segment => (~last.matched /\ last.err = ErrInvalidFormat /\ ~RanKDF)

\* What the composite encoders do return for such an envelope: matched = false,
\* the KDF not run, and an error made on the spot by fmt.Errorf ("invalid salt
\* encoding", "invalid hash encoding"), which is not ErrInvalidFormat.
C18_BadBase64Rejected ==
    BadBase64Segment
        => /\ ~last.matched
           /\ ~RanKDF
           /\ last.err = IF DecodeOK(StdAlphabet, Split(last.encoded, "$")[2])
                         THEN ErrHashEncoding ELSE ErrSaltEncoding
           /\ last.err # ErrInvalidFormat

\* C18: an scrypt encoder has verified, with the right secret, its own envelope
\* with the first character of the salt segment replaced by "!".
C18_Witness ==
    /\ BadBase64Segment
    /\ last.recv = ScryptEncoder
    /\ last.kind = "BadSalt"
    /\ last.raw = stored.secret
    /\ Verify(last.recv, last.raw, stored.envelope).matched
    /\ ~last.matched
    /\ last.err = ErrSaltEncoding

\* C19: the identifier the dispatcher writes in the prefix is the default identifier
\* stored at construction: the dispatcher holds the identifier its constructor was
\* given, and every Encode that returns an envelope has written "{", that
\* identifier and "}" in front, also when the default encoder is registered under
\* several keys.
C19_StoredDefault ==
    (last.op = "DEncode" /\ last.err = Nil)
        => /\ d.DefaultEncoderID = ctor.defaultEncoderID
           /\ HasPrefix(last.out, <<"{">> \o ctor.defaultEncoderID \o <<"}">>)

\* C19 for the variadic revision alone, whose getDefaultID returns the stored field.
C19_StoredDefaultVariadic == d.rev = "variadic" => C19_StoredDefault

\* C19: the dispatcher of the map revision, built with the default "bcrypt" over a
\* map that holds the bcrypt encoder under "bcrypt" and under "legacy", has encoded
\* a secret and written the prefix "{legacy}".
C19_Witness ==
    /\ last.op = "DEncode"
    /\ last.err = Nil
    /\ d.rev = "map"
    /\ ctor.defaultEncoderID = BcryptName
    /\ DOMAIN d.Encoders = {BcryptName, Str_legacy}
    /\ d.Encoders[BcryptName] = d.Encoders[Str_legacy]
    /\ d.DefaultEncoderID = <<>>
    /\ HasPrefix(last.out, <<"{">> \o Str_legacy \o <<"}">>)

\* C20: Name() of a scheme encoder returns the fixed identifier of its scheme
\* ("bcrypt", "scrypt", "argon2", "pbkdf2"), whatever the encoder's configuration
\* and whatever calls came before, and that identifier is the key under which the
\* dispatcher holds the encoder in its registry and under which it routes to it.
C20_Name ==
    /\ \A p \in DOMAIN heap :
          /\ heap[p].scheme = "bcrypt" => Name(heap[p]) = <<"b", "c", "r", "y", "p", "t">>
          /\ heap[p].scheme = "scrypt" => Name(heap[p]) = <<"s", "c", "r", "y", "p", "t">>
          /\ heap[p].scheme = "argon2" => Name(heap[p]) = <<"a", "r", "g", "o", "n", "2">>
          /\ heap[p].scheme = "pbkdf2" => Name(heap[p]) = <<"p", "b", "k", "d", "f", "2">>
    /\ ~d.nil => \A id \in DOMAIN d.Encoders : Name(d.Encoders[id]) = id
    /\ (last.op = "DVerify" /\ Len(last.calls) = 1)
          => Name(last.calls[1].enc) = last.lookups[1]

\* C20 for the variadic revision alone, whose constructor builds the registry from
\* the Name() of each encoder.
C20_NameVariadic == d.rev = "variadic" => C20_Name

\* C20: a dispatcher of the map revision holds the bcrypt encoder under the key
\* "legacy" and has routed a Verify of a "{legacy}" envelope to it.
C20_Witness ==
    /\ d.rev = "map"
    /\ last.op = "DVerify"
    /\ Len(last.calls) = 1
    /\ last.lookups = <<Str_legacy>>
    /\ last.calls[1].enc = BcryptEncoder
    /\ Name(BcryptEncoder) = BcryptName
    /\ d.Encoders[Str_legacy] = BcryptEncoder

\* The last constructor call made a scheme encoder.
MadeEncoder == "e" \in DOMAIN ctor

\* Whether the option list sets the field, and what the last option for it gave.
Given(opts, field) == \E i \in 1..Len(opts) : opts[i].field = field

LastGiven(opts, field) ==
    opts[CHOOSE i \in 1..Len(opts) :
            /\ opts[i].field = field
            /\ \A j \in (i + 1)..Len(opts) : opts[j].field # field].val

\* The field of the encoder made is what the options gave for it, or else def.
OptionOrDefault(field, def) ==
    ctor.e[field] = IF Given(ctor.opts, field) THEN LastGiven(ctor.opts, field) ELSE def

\* The same for the positional constructor's argument i, where zero is "not given".
ArgumentOrDefault(field, i, def) ==
    ctor.e[field] = IF ctor.args[i] = 0 THEN def ELSE ctor.args[i]

\* C21: an encoder constructed without a value for a parameter (no option for it,
\* or a zero passed to the positional constructor) has the documented default:
\* PBKDF2 10000 iterations, keyLen 32, saltLen 16, SHA-256; Argon2 time 1, memory
\* 65536, threads 4, keyLen 32, saltLen 16; SCrypt N 16384, r 8, p 1, keyLen 32,
\* saltLen 16; Bcrypt cost 10.  A parameter that is given is kept as given.
C21_Defaults ==
    MadeEncoder =>
        CASE ctor.form = "options" /\ ctor.scheme = "pbkdf2" ->
                /\ OptionOrDefault("Iterations", 10000)
                /\ OptionOrDefault("KeyLen", 32)
                /\ OptionOrDefault("SaltLen", 16)
                /\ ctor.e.HashFunc = IF Given(ctor.opts, "HashFunc")
                                     THEN LastGiven(ctor.opts, "HashFunc").HashFunc
                                     ELSE "sha256.New"
                /\ ctor.e.HashFuncName = IF Given(ctor.opts, "HashFunc")
                                         THEN LastGiven(ctor.opts, "HashFunc").HashFuncName
                                         ELSE <<"s", "h", "a", "2", "5", "6">>
          [] ctor.form = "options" /\ ctor.scheme = "scrypt" ->
                /\ OptionOrDefault("N", 16384)
                /\ OptionOrDefault("R", 8)
                /\ OptionOrDefault("P", 1)
                /\ OptionOrDefault("KeyLen", 32)
                /\ OptionOrDefault("SaltLen", 16)
          [] ctor.form = "options" /\ ctor.scheme = "argon2" ->
                /\ OptionOrDefault("Time", 1)
                /\ OptionOrDefault("Memory", 65536)
                /\ OptionOrDefault("Threads", 4)
                /\ OptionOrDefault("KeyLen", 32)
                /\ OptionOrDefault("SaltLen", 16)
          [] ctor.form = "options" /\ ctor.scheme = "bcrypt" -> OptionOrDefault("Cost", 10)
          [] ctor.form = "positional" /\ ctor.scheme = "pbkdf2" ->
                /\ ArgumentOrDefault("Iterations", 1, 10000)
                /\ ArgumentOrDefault("KeyLen", 2, 32)
                /\ ArgumentOrDefault("SaltLen", 3, 16)
                /\ ctor.e.HashFunc = IF ctor.args[4] = "nil" THEN "sha256.New" ELSE ctor.args[4]
          [] ctor.form = "positional" /\ ctor.scheme = "scrypt" ->
                /\ ArgumentOrDefault("N", 1, 16384)
                /\ ArgumentOrDefault("R", 2, 8)
                /\ ArgumentOrDefault("P", 3, 1)
                /\ ArgumentOrDefault("KeyLen", 4, 32)
                /\ ArgumentOrDefault("SaltLen", 5, 16)
          [] ctor.form = "positional" /\ ctor.scheme = "argon2" ->
                /\ ArgumentOrDefault("Time", 1, 1)
                /\ ArgumentOrDefault("Memory", 2, 65536)
                /\ ArgumentOrDefault("Threads", 3, 4)
                /\ ArgumentOrDefault("KeyLen", 4, 32)
                /\ ArgumentOrDefault("SaltLen", 5, 16)
          [] ctor.form = "positional" /\ ctor.scheme = "bcrypt" ->
                ArgumentOrDefault("Cost", 1, 10)

\* The positional PBKDF2 constructor was given 1000 iterations and a zero for the
\* key length and the salt length, and no hash function.
C21_Witness ==
    /\ MadeEncoder
    /\ ctor.form = "positional"
    /\ ctor.scheme = "pbkdf2"
    /\ ctor.args = <<1000, 0, 0, "nil">>
    /\ ctor.e.Iterations = 1000
    /\ ctor.e.KeyLen = 32
    /\ ctor.e.SaltLen = 16
    /\ ctor.e.HashFunc = "sha256.New"

\* The salt segment of an envelope: the segment before the hash segment.
SaltSegment(env) == Split(env, "$")[Len(Split(env, "$")) - 1]

\* C22: every Encode of a composite scheme that returns an envelope has drawn a
\* salt of exactly the configured SaltLen bytes from the random source in that
\* call, and the envelope holds exactly that salt; the encoder object is as it
\* was, with no salt kept in it.
C22_FreshSalt ==
    (last.op = "Encode" /\ Composite(last.recv) /\ last.err = Nil)
        => /\ DecodeOK(StdAlphabet, SaltSegment(last.out))
           /\ Len(DecodeString(StdAlphabet, SaltSegment(last.out))) = last.recv.SaltLen
           /\ DecodeString(StdAlphabet, SaltSegment(last.out))
                 = [i \in 1..last.recv.SaltLen |-> last.rnd.fill]
           /\ heap[last.recv.ptr] = last.recv

\* An Encode of "a" by the PBKDF2 encoder of the tests, for which the source gave
\* the bytes 171: the envelope differs from the one the same encoder makes of the
\* same secret when the source gives zeros.
C22_Witness ==
    /\ last.op = "Encode"
    /\ last.recv = PBKDF2Test
    /\ last.raw = <<"a">>
    /\ last.err = Nil
    /\ last.rnd.fill = 171
    /\ DecodeString(StdAlphabet, SaltSegment(last.out)) = [i \in 1..16 |-> 171]
    /\ last.out # PBKDF2Encode(PBKDF2Test, <<"a">>, [err |-> Nil, fill |-> 0]).out

\* The text "name=value" of a parameter, with the value in decimal.
Field(name, value) == name \o <<"=">> \o FormatInt(value)

\* The parameter block of the scheme's documented envelope, for the encoder e.
DocumentedBlock(e) ==
    CASE e.scheme = "scrypt" ->
            Field(<<"N">>, e.N) \o <<",">> \o Field(<<"r">>, e.R) \o <<",">>
                \o Field(<<"p">>, e.P) \o <<",">> \o Field(<<"k", "e", "y", "L", "e", "n">>, e.KeyLen)
      [] e.scheme = "argon2" ->
            Field(<<"t", "i", "m", "e">>, e.Time) \o <<",">>
                \o Field(<<"m", "e", "m", "o", "r", "y">>, e.Memory) \o <<",">>
                \o Field(<<"t", "h", "r", "e", "a", "d", "s">>, e.Threads) \o <<",">>
                \o Field(<<"k", "e", "y", "L", "e", "n">>, e.KeyLen)
      [] e.scheme = "pbkdf2" ->
            Field(<<"i", "t", "e", "r", "a", "t", "i", "o", "n", "s">>, e.Iterations) \o <<",">>
                \o Field(<<"k", "e", "y", "L", "e", "n">>, e.KeyLen) \o <<",">>
                \o <<"h", "a", "s", "h", "F", "u", "n", "c", "=">> \o e.HashFuncName

\* The KDF output for the secret, the salt and the parameters of the encoder e.
DocumentedHash(e, secret, salt) ==
    CASE e.scheme = "scrypt" -> ScryptKey(secret, salt, e.N, e.R, e.P, e.KeyLen).key
      [] e.scheme = "argon2" ->
            Argon2IDKey(secret, salt, e.Time, e.Memory, e.Threads, e.KeyLen).key
      [] e.scheme = "pbkdf2" -> PBKDF2Key(secret, salt, e.Iterations, e.KeyLen, e.HashFunc)

\* C23: the envelope a composite Encode returns is exactly the scheme's documented
\* text, "<parameter block>$<b64 salt>$<b64 hash>", with the values of the
\* encoder's configured parameters, the salt of the call, and the hash the KDF
\* gives for the secret, that salt and those parameters.
C23_EnvelopeText ==
    (last.op = "Encode" /\ Composite(last.recv) /\ last.err = Nil)
        => last.out =
              DocumentedBlock(last.recv) \o <<"$">>
                  \o StdEncode([i \in 1..last.recv.SaltLen |-> last.rnd.fill]) \o <<"$">>
                  \o StdEncode(DocumentedHash(last.recv, last.raw,
                                              [i \in 1..last.recv.SaltLen |-> last.rnd.fill]))

\* An scrypt Encode with the default parameters has returned its envelope.
C23_Witness ==
    /\ last.op = "Encode"
    /\ last.recv = ScryptEncoder
    /\ last.err = Nil
    /\ HasPrefix(last.out, <<"N", "=", "1", "6", "3", "8", "4", ",", "r", "=", "8", ",",
                             "p", "=", "1", ",", "k", "e", "y", "L", "e", "n", "=", "3", "2",
                             "$">>)
    /\ Len(Split(last.out, "$")) = 3

\* C24: a composite Verify recomputes the hash from the parameters and the salt of
\* the envelope alone, never from the configuration of the encoder it is called
\* on: whatever a composite encoder returns for a secret and an envelope, every
\* other encoder of the same scheme, whatever its configuration, returns too.
C24_ParametersFromEnvelope ==
    (last.op = "Verify" /\ Composite(last.recv))
        => \A p \in DOMAIN heap :
              heap[p].scheme = last.recv.scheme
                  => /\ Verify(heap[p], last.raw, last.encoded).matched = last.matched
                     /\ Verify(heap[p], last.raw, last.encoded).err = last.err

\* The PBKDF2 encoder with the default 10000 iterations has verified, with the
\* right secret, an envelope that the encoder with 1000 iterations made, and it
\* matched.
C24_Witness ==
    /\ last.op = "Verify"
    /\ last.kind = "none"
    /\ stored.present
    /\ stored.by = PBKDF2Test
    /\ last.recv = PBKDF2Encoder
    /\ PBKDF2Test.Iterations = 1000
    /\ PBKDF2Encoder.Iterations = 10000
    /\ last.raw = stored.secret
    /\ last.encoded = stored.envelope
    /\ last.matched
    /\ last.err = Nil

\* The parameter block as the Verify of the scheme scans it.
ScannedBlock(scheme, block) ==
    CASE scheme = "pbkdf2" -> PBKDF2ScanParams(block)
      [] scheme = "scrypt" -> ScryptScanParams(block)
      [] scheme = "argon2" -> Argon2ScanParams(block)

\* The text the scheme's Encode emits for the parameter values vals.
EmittedBlock(scheme, vals) ==
    CASE scheme = "pbkdf2" ->
            Str_iterations \o FormatInt(vals[1]) \o Str_keyLen \o FormatInt(vals[2])
                \o Str_hashFunc \o vals[3]
      [] scheme = "scrypt" ->
            Str_N \o FormatInt(vals[1]) \o Str_r \o FormatInt(vals[2])
                \o Str_p \o FormatInt(vals[3]) \o Str_keyLen \o FormatInt(vals[4])
      [] scheme = "argon2" ->
            Str_time \o FormatInt(vals[1]) \o Str_memory \o FormatInt(vals[2])
                \o Str_threads \o FormatInt(vals[3]) \o Str_keyLen \o FormatInt(vals[4])

\* The block is, character for character, a text the scheme's Encode emits: the
\* same field names in the same order, with nothing missing and nothing extra.
ExactBlock(scheme, block) ==
    /\ ScannedBlock(scheme, block).ok
    /\ block = EmittedBlock(scheme, ScannedBlock(scheme, block).vals)

C25_UnscannableRejected ==
    (/\ last.op = "Verify"
     /\ Composite(last.recv)
     /\ Len(Split(last.encoded, "$")) = 3
     /\ ~ScannedBlock(last.recv.scheme, Split(last.encoded, "$")[1]).ok)
        => (last.err = ErrParameterFormat /\ ~last.matched)

C26_Extract ==
    last.op = "extract" =>
        /\ \A k \in 2..Len(last.encoded) :
              (/\ last.encoded[1] = "{"
               /\ last.encoded[k] = "}"
               /\ \A j \in 2..(k - 1) : last.encoded[j] # "}")
                  => /\ last.x.id = SubSeq(last.encoded, 2, k - 1)
                     /\ last.x.hash = SubSeq(last.encoded, k + 1, Len(last.encoded))
                     /\ last.x.err = Nil
        /\ last.x.err # Nil
              => (last.x.id = <<>> /\ last.x.hash = <<>> /\ last.x.err = ErrInvalidFormat)

\* extractIDAndHash was given "{a}$}", whose inner text holds a "$" and a "}", and
\* returned ("a", "$}", nil).
C26_Witness ==
    /\ last.op = "extract"
    /\ last.encoded = <<"{", "a", "}", "$", "}">>
    /\ last.x.id = <<"a">>
    /\ last.x.hash = <<"$", "}">>
    /\ last.x.err = Nil

\* The error of the KDF primitive in the last call, Nil when the primitive was not
\* reached or did not fail: scrypt.Key on the encoder's parameters (Encode) or on
\* the envelope's (Verify), bcrypt.GenerateFromPassword, and
\* bcrypt.CompareHashAndPassword, whose mismatch signal is no failure.
PrimitiveError ==
    CASE last.op = "Encode" /\ last.recv.scheme = "scrypt" ->
            IF last.rnd.err # Nil THEN Nil
            ELSE ScryptKey(last.raw, [i \in 1..last.recv.SaltLen |-> last.rnd.fill],
                           last.recv.N, last.recv.R, last.recv.P, last.recv.KeyLen).err
      [] last.op = "Encode" /\ last.recv.scheme = "bcrypt" ->
            BcryptGenerateFromPassword(last.raw, last.recv.Cost, last.rnd).err
      [] last.op = "Verify" /\ last.recv.scheme = "scrypt" ->
            IF /\ Len(Split(last.encoded, "$")) = 3
               /\ ScryptScanParams(Split(last.encoded, "$")[1]).ok
               /\ DecodeOK(StdAlphabet, Split(last.encoded, "$")[2])
               /\ DecodeOK(StdAlphabet, Split(last.encoded, "$")[3])
            THEN ScryptKey(last.raw, DecodeString(StdAlphabet, Split(last.encoded, "$")[2]),
                           ScryptScanParams(Split(last.encoded, "$")[1]).vals[1],
                           ScryptScanParams(Split(last.encoded, "$")[1]).vals[2],
                           ScryptScanParams(Split(last.encoded, "$")[1]).vals[3],
                           ScryptScanParams(Split(last.encoded, "$")[1]).vals[4]).err
            ELSE Nil
      [] last.op = "Verify" /\ last.recv.scheme = "bcrypt" ->
            IF BcryptCompareHashAndPassword(last.encoded, last.raw)
                  = ErrMismatchedHashAndPassword
            THEN Nil
            ELSE BcryptCompareHashAndPassword(last.encoded, last.raw)
      [] OTHER -> Nil

\* C27: a failure of the KDF primitive goes back to the caller as it is: when
\* scrypt rejects the parameters, or bcrypt its cost or the stored hash, Encode
\* returns the empty string and that error, and Verify returns false and that
\* error.
C27_PrimitiveFailure ==
    (last.op \in {"Encode", "Verify"} /\ PrimitiveError # Nil)
        => /\ last.err = PrimitiveError
           /\ last.op = "Encode" => last.out = <<>>
           /\ last.op = "Verify" => ~last.matched

\* An scrypt Verify, with the right secret, of an envelope whose N was changed to
\* 16385, which scrypt.Key rejects: (false, that error).
C27_Witness ==
    /\ last.op = "Verify"
    /\ last.recv = ScryptEncoder
    /\ last.kind = "BadN"
    /\ last.raw = stored.secret
    /\ ScryptScanParams(Split(last.encoded, "$")[1]).vals[1] = 16385
    /\ PrimitiveError = ErrScryptN
    /\ ~last.matched
    /\ last.err = ErrScryptN

\* The encoder a Verify of an envelope "{id}..." is routed to, and the encoder
\* Encode calls, in the dispatcher a construction returned.
RoutedEncoder(id) == ctor.d.Encoders[id]
EncodingEncoder == ctor.d.DefaultEncoder

\* C28: in every successfully constructed dispatcher DefaultEncoder is the encoder
\* the registry holds under the default identifier, so Encode uses the encoder that
\* Verify routes "{defaultID}..." envelopes to; when several of the encoders given
\* share a Name(), the registry holds the last of them under that name, and that
\* one serves both.
C28_DefaultInRegistry ==
    (ctor.called /\ ctor.err = Nil /\ ~ctor.d.nil) =>
        /\ ctor.defaultEncoderID \in DOMAIN ctor.d.Encoders
        /\ EncodingEncoder = RoutedEncoder(ctor.defaultEncoderID)
        /\ ctor.rev = "variadic" =>
              /\ ctor.d.DefaultEncoderID = ctor.defaultEncoderID
              /\ \A i \in 1..Len(ctor.encoders) :
                    (\A j \in (i + 1)..Len(ctor.encoders) :
                        Name(ctor.encoders[j]) # Name(ctor.encoders[i]))
                    => RoutedEncoder(Name(ctor.encoders[i])) = ctor.encoders[i]

\* C28 for the variadic revision alone.
C28_DefaultInRegistryVariadic ==
    (ctor.called /\ ctor.rev = "variadic") => C28_DefaultInRegistry

\* Two bcrypt encoders given to the variadic constructor with the default
\* "bcrypt": the registry holds the second, and it is the default encoder.
C28_Witness ==
    /\ ctor.called
    /\ ctor.rev = "variadic"
    /\ ctor.err = Nil
    /\ ctor.defaultEncoderID = BcryptName
    /\ ctor.encoders = <<BcryptEncoder, BcryptBadCost>>
    /\ DOMAIN ctor.d.Encoders = {BcryptName}
    /\ RoutedEncoder(BcryptName) = BcryptBadCost
    /\ EncodingEncoder = BcryptBadCost
    /\ BcryptBadCost # BcryptEncoder

\* The last call was a Verify, or an Encode, of an encoder or of the dispatcher,
\* and it returned: a call that panicked returned nothing.
ReturnedVerify == last.op \in {"Verify", "DVerify"} /\ last.err \notin Panics
ReturnedEncode == last.op \in {"Encode", "DEncode"} /\ last.err \notin Panics

\* C29: for every encoder and for the dispatcher, a Verify that returns an error
\* returns false with it, an Encode that returns an error returns the empty string
\* with it, and true is returned with a nil error only.
C29_ErrorResults ==
    /\ (ReturnedVerify /\ last.err # Nil) => last.matched = FALSE
    /\ (ReturnedEncode /\ last.err # Nil) => last.out = <<>>
    /\ (ReturnedVerify /\ last.matched) => last.err = Nil

\* A dispatcher Verify, with the right secret, of an envelope whose hash part lost
\* a segment: the routed encoder's error comes back with false.
C29_Witness ==
    /\ last.op = "DVerify"
    /\ last.kind = "TwoSegments"
    /\ last.raw = stored.secret
    /\ last.err = ErrEncodedFormat
    /\ last.matched = FALSE
    /\ Len(last.calls) = 1

\* The key the scheme's KDF derives from a secret, a salt and the parameter values
\* scanned from an envelope.
EnvelopeKey(scheme, raw, salt, vals) ==
    CASE scheme = "pbkdf2" -> PBKDF2Key(raw, salt, vals[1], vals[2], "sha256.New")
      [] scheme = "scrypt" -> ScryptKey(raw, salt, vals[1], vals[2], vals[3], vals[4]).key
      [] scheme = "argon2" ->
            Argon2IDKey(raw, salt, vals[1], vals[2], vals[3], vals[4]).key

\* The envelope of three segments parts, read by the scheme's Verify, carries in
\* its hash segment the key the KDF derives for raw from its salt and parameters.
CarriesKey(scheme, raw, parts) ==
    /\ Len(parts) = 3
    /\ ScannedBlock(scheme, parts[1]).ok
    /\ scheme = "pbkdf2" => ScannedBlock(scheme, parts[1]).vals[3] = Str_sha256
    /\ DecodeOK(StdAlphabet, parts[2])
    /\ DecodeOK(StdAlphabet, parts[3])
    /\ DecodeString(StdAlphabet, parts[3])
          = EnvelopeKey(scheme, raw, DecodeString(StdAlphabet, parts[2]),
                        ScannedBlock(scheme, parts[1]).vals)

\* The last call was a Verify of a composite encoder that returned true.
CompositeMatch == last.op = "Verify" /\ Composite(last.recv) /\ last.matched

\* C30: for a composite scheme and any envelope, the hand-written ones with
\* keyLen=0 or an empty hash segment included, Verify returns true only when the
\* decoded hash segment is the KDF's output for the secret, the decoded salt and
\* the parsed parameters, and no envelope verifies as a match for two different
\* secrets.
C30_SingleSecret ==
    CompositeMatch =>
        /\ CarriesKey(last.recv.scheme, last.raw, Split(last.encoded, "$"))
        /\ \A raw \in Secrets \ {last.raw} :
              ~Verify(last.recv, raw, last.encoded).matched

\* What does hold of every match: the hash segment is the KDF's output.
C30_MatchIsKDFOutput ==
    CompositeMatch => CarriesKey(last.recv.scheme, last.raw, Split(last.encoded, "$"))

\* The hand-written envelope with keyLen=0 and an empty hash segment has verified
\* as a match for the secret "a"; it does so for the secret "" as well.
C30_Witness ==
    /\ CompositeMatch
    /\ stored.imported
    /\ last.encoded = Str_zero_key
    /\ last.recv = PBKDF2Encoder
    /\ last.raw = <<"a">>
    /\ last.err = Nil
    /\ Verify(last.recv, <<>>, last.encoded).matched

====
